---- MODULE Spec2Model ----
(***************************************************************************)
(* Sea Battle (src/7): Ship, Board, Player / HumanPlayer / CPUPlayer and   *)
(* Game, modelled as state machines.                                       *)
(*                                                                         *)
(* A coordinate is a JavaScript string; it is modelled as the sequence of  *)
(* its characters, each a one-character string: '34' is <<"3", "4">>.      *)
(* A Board is a record [size, grid, ships, guesses]; grid is a function    *)
(* from <<row, col>> keys to markers, so that a write outside the S x S    *)
(* shape (which JavaScript allows inside an existing row) is visible as a  *)
(* new key.  An operation that can throw returns a record with a field     *)
(* threw, "none" when it returned normally.                                *)
(***************************************************************************)
EXTENDS Integers, Sequences, FiniteSets, TLC

VARIABLES board, last, frame, cpu, human, game, hunt, ghost, shipObj

vars == <<board, last, frame, cpu, human, game, hunt, ghost, shipObj>>

-----------------------------------------------------------------------------
(* Bounds of the explored inputs *)

\* most ships put on the stand-alone board
MaxShips == 2
\* most distinct coordinates guessed against the stand-alone board
MaxGuesses == 3
\* board sizes of the stand-alone board
BoardSizes == {3}
\* most ships requested from placeShipsRandomly over all calls on one board
MaxFleet == 2
\* board sizes, ship counts and ship lengths handed to placeShipsRandomly
PlaceSizes == {2}
PlaceCounts == {1, 2}
PlaceLengths == {0, 1, 2, 3, 4}
\* most distinct coordinates whose result the stand-alone CPU player processes
MaxAIGuesses == 3
\* most calls the stand-alone CPU player receives outside the cycle
\* generateGuess(), processGuessResult(the coordinate returned, a result)
MaxDirect == 1
\* most coordinates left unguessed, or guessed, on the tracking board that
\* generateHuntGuess starts from
MaxOpen == 2

-----------------------------------------------------------------------------
(* JavaScript primitives *)

DigitChars == <<"0", "1", "2", "3", "4", "5", "6", "7", "8", "9">>

\* the value parseInt gives for a character that is no digit
NaN == -1000

None == "none"
InvalidFormat == "Error: Invalid coordinate format"
TypeError == "TypeError"

isNaN(x) == x = NaN

\* parseInt of a one-character string
parseInt(ch) ==
  IF \E d \in 1..10 : DigitChars[d] = ch
    THEN (CHOOSE d \in 1..10 : DigitChars[d] = ch) - 1
    ELSE NaN

RECURSIVE NatStr(_)
NatStr(n) == IF n < 10 THEN <<DigitChars[n + 1]>>
             ELSE NatStr(n \div 10) \o <<DigitChars[(n % 10) + 1]>>

\* `${n}` for an integer n
ToStr(n) == IF n < 0 THEN <<"-">> \o NatStr(0 - n) ELSE NatStr(n)

\* Array.prototype.indexOf, 1-based; 0 when absent (JavaScript: -1)
indexOf(seq, x) ==
  IF \E i \in 1..Len(seq) : seq[i] = x
    THEN CHOOSE i \in 1..Len(seq) : seq[i] = x /\ \A j \in 1..(i - 1) : seq[j] # x
    ELSE 0

\* Math.floor(Math.random() * n): the set of values it can take
RandFloor(n) == IF n > 0 THEN 0..(n - 1) ELSE n..0

Range(seq) == {seq[i] : i \in 1..Len(seq)}

-----------------------------------------------------------------------------
(* Ship *)

Ship(locations) ==
  [locations |-> locations, hits |-> [i \in 1..Len(locations) |-> FALSE]]

hit_whole(ship, location) ==
  LET index == indexOf(ship.locations, location)
  IN IF index >= 1 /\ ~ship.hits[index]
       THEN [ship |-> [ship EXCEPT !.hits = [i \in 1..Len(ship.hits) |-> TRUE]],
             ret |-> TRUE]
       ELSE [ship |-> ship, ret |-> FALSE]

hit_rehit(ship, location) ==
  LET index == indexOf(ship.locations, location)
  IN IF index >= 1
       THEN [ship |-> [ship EXCEPT !.hits[index] = TRUE], ret |-> TRUE]
       ELSE [ship |-> ship, ret |-> FALSE]

\* Ship.hit: the ship after the call and the value returned
hit(ship, location) ==
  LET index == indexOf(ship.locations, location)
  IN IF index >= 1 /\ ~ship.hits[index]
       THEN [ship |-> [ship EXCEPT !.hits[index] = TRUE], ret |-> TRUE]
       ELSE [ship |-> ship, ret |-> FALSE]

isSunk_any(ship) == \E i \in 1..Len(ship.hits) : ship.hits[i]

isSunk_nonempty(ship) ==
  Len(ship.hits) > 0 /\ \A i \in 1..Len(ship.hits) : ship.hits[i]

isSunk(ship) == \A i \in 1..Len(ship.hits) : ship.hits[i]

occupies(ship, location) == location \in Range(ship.locations)

-----------------------------------------------------------------------------
(* Board *)

createGrid(size) == [p \in (0..(size - 1)) \X (0..(size - 1)) |-> "~"]

Board(size) ==
  [size |-> size, grid |-> createGrid(size), ships |-> <<>>, guesses |-> {}]

parseCoordinate(coordinate) ==
  IF Len(coordinate) # 2
    THEN [threw |-> InvalidFormat]
    ELSE [threw |-> None,
          val |-> <<parseInt(coordinate[1]), parseInt(coordinate[2])>>]

isValidCoordinate(b, row, col) ==
  /\ ~isNaN(row) /\ ~isNaN(col)
  /\ row >= 0 /\ row < b.size /\ col >= 0 /\ col < b.size

\* this.grid[row][col] = v: a TypeError when grid[row] is undefined,
\* otherwise the property col of the row is set, whatever col is
gridSet(b, row, col, v) ==
  IF isNaN(row) \/ row < 0 \/ row >= b.size
    THEN [threw |-> TypeError, board |-> b]
    ELSE [threw |-> None,
          board |-> [b EXCEPT !.grid =
                       [p \in (DOMAIN b.grid) \cup {<<row, col>>} |->
                          IF p = <<row, col>> THEN v ELSE b.grid[p]]]]

generateShipLocations_diag(startRow, startCol, shipLength, orientation) ==
  [i \in 1..shipLength |->
     LET row == IF orientation = "horizontal" THEN startRow ELSE startRow + (i - 1)
         col == startCol + (i - 1)
     IN ToStr(row) \o ToStr(col)]

generateShipLocations(startRow, startCol, shipLength, orientation) ==
  [i \in 1..shipLength |->
     LET row == IF orientation = "horizontal" THEN startRow ELSE startRow + (i - 1)
         col == IF orientation = "horizontal" THEN startCol + (i - 1) ELSE startCol
     IN ToStr(row) \o ToStr(col)]

\* the start positions getRandomStartPosition can return
getRandomStartPosition(b, shipLength, orientation) ==
  IF orientation = "horizontal"
    THEN RandFloor(b.size) \X RandFloor(b.size - shipLength + 1)
    ELSE RandFloor(b.size - shipLength + 1) \X RandFloor(b.size)

\* locations.every(...) from index i on: stops at the first false or throw
RECURSIVE canPlaceFrom(_, _, _)
canPlaceFrom(b, locations, i) ==
  IF i > Len(locations) THEN [threw |-> None, ret |-> TRUE]
  ELSE LET pc == parseCoordinate(locations[i])
       IN IF pc.threw # None THEN [threw |-> pc.threw]
          ELSE IF isValidCoordinate(b, pc.val[1], pc.val[2])
                    /\ b.grid[<<pc.val[1], pc.val[2]>>] = "~"
                 THEN canPlaceFrom(b, locations, i + 1)
                 ELSE [threw |-> None, ret |-> FALSE]

canPlaceShip_nogrid(b, locations) ==
  IF \A i \in 1..Len(locations) :
        /\ Len(locations[i]) = 2
        /\ isValidCoordinate(b, parseInt(locations[i][1]), parseInt(locations[i][2]))
    THEN [threw |-> None, ret |-> TRUE]
    ELSE canPlaceFrom(b, locations, 1)

canPlaceShip_first(b, locations) ==
  IF Len(locations) = 0 THEN [threw |-> None, ret |-> TRUE]
  ELSE canPlaceFrom(b, <<locations[1]>>, 1)

canPlaceShip(b, locations) == canPlaceFrom(b, locations, 1)

\* locations.forEach(mark 'S') from index i on: stops at the first throw
RECURSIVE markFrom(_, _, _)
markFrom(b, locations, i) ==
  IF i > Len(locations) THEN [threw |-> None, board |-> b]
  ELSE LET pc == parseCoordinate(locations[i])
       IN IF pc.threw # None THEN [threw |-> pc.threw, board |-> b]
          ELSE LET w == gridSet(b, pc.val[1], pc.val[2], "S")
               IN IF w.threw # None THEN w
                  ELSE markFrom(w.board, locations, i + 1)

placeShip_nomark(b, locations) ==
  [threw |-> None, board |-> [b EXCEPT !.ships = Append(@, Ship(locations))]]

\* Board.placeShip: the ship is pushed before the grid is marked
placeShip(b, locations) ==
  markFrom([b EXCEPT !.ships = Append(@, Ship(locations))], locations, 1)

\* index of the first ship whose hit(coordinate) returns true, 0 if none
firstHit(b, coordinate) ==
  IF \E k \in 1..Len(b.ships) : hit(b.ships[k], coordinate).ret
    THEN CHOOSE k \in 1..Len(b.ships) :
           /\ hit(b.ships[k], coordinate).ret
           /\ \A j \in 1..(k - 1) : ~hit(b.ships[j], coordinate).ret
    ELSE 0

AlreadyGuessed == [hit |-> FALSE, sunk |-> FALSE, alreadyGuessed |-> TRUE]
Miss == [hit |-> FALSE, sunk |-> FALSE, alreadyGuessed |-> FALSE]

processGuess_norepeat(b, coordinate) ==
  LET b1 == [b EXCEPT !.guesses = @ \cup {coordinate}]
      pc == parseCoordinate(coordinate)
  IN IF pc.threw # None THEN [threw |-> pc.threw, board |-> b1]
     ELSE LET k == firstHit(b1, coordinate)
          IN IF k >= 1
               THEN LET h == hit(b1.ships[k], coordinate)
                        b2 == [b1 EXCEPT !.ships[k] = h.ship]
                        w == gridSet(b2, pc.val[1], pc.val[2], "X")
                    IN IF w.threw # None THEN w
                       ELSE [threw |-> None, board |-> w.board,
                             ret |-> [hit |-> TRUE, sunk |-> isSunk(h.ship),
                                      alreadyGuessed |-> FALSE, ship |-> k]]
               ELSE LET w == gridSet(b1, pc.val[1], pc.val[2], "O")
                    IN IF w.threw # None THEN w
                       ELSE [threw |-> None, board |-> w.board, ret |-> Miss]

\* Board.processGuess: the board after the call, what was thrown, what was
\* returned (ship: the index of the ship that was hit)
processGuess(b, coordinate) ==
  IF coordinate \in b.guesses
    THEN [threw |-> None, board |-> b, ret |-> AlreadyGuessed]
    ELSE processGuess_norepeat(b, coordinate)

allShipsSunk_vacuous(b) == \A k \in 1..Len(b.ships) : isSunk(b.ships[k])

allShipsSunk(b) ==
  Len(b.ships) > 0 /\ \A k \in 1..Len(b.ships) : isSunk(b.ships[k])

getRemainingShipsCount_hit(b) ==
  Cardinality({k \in 1..Len(b.ships) : ~isSunk_any(b.ships[k])})

getRemainingShipsCount(b) ==
  Cardinality({k \in 1..Len(b.ships) : ~isSunk(b.ships[k])})

hasBeenGuessed(b, coordinate) == coordinate \in b.guesses

-----------------------------------------------------------------------------
(* The stand-alone Board: a client that calls placeShip and processGuess   *)

Idle == [op |-> "idle"]

\* ship footprints handed to placeShip: straight lines, an empty ship, a
\* ship that lists one coordinate twice
ShipPool ==
  { <<>>,
    << <<"0","0">> >>,
    << <<"0","1">>, <<"1","1">> >>,
    << <<"0","0">>, <<"0","1">>, <<"0","2">> >>,
    << <<"0","0">>, <<"0","0">> >> }

\* coordinates handed to processGuess: cells, cells outside a small board,
\* strings that are no coordinate
GuessPool ==
  { <<"0","0">>, <<"0","1">>, <<"0","2">>, <<"1","1">>,
    <<"0","5">>, <<"5","0">>, <<"A","B">>, <<"3">> }

InGrid(b, locations) ==
  \A i \in 1..Len(locations) :
     /\ Len(locations[i]) = 2
     /\ isValidCoordinate(b, parseInt(locations[i][1]), parseInt(locations[i][2]))

InitBoard ==
  /\ shipObj = Idle
  /\ board \in {Board(s) : s \in BoardSizes}
  /\ last = [op |-> "new"]
  /\ frame = Idle /\ cpu = Idle /\ human = Idle /\ game = Idle /\ hunt = Idle
  /\ ghost = Idle

BPlaceShip ==
  \E locations \in ShipPool :
     /\ Len(board.ships) < MaxShips
     /\ InGrid(board, locations)
     /\ LET r == placeShip(board, locations)
        IN /\ board' = r.board
           /\ last' = [op |-> "placeShip", arg |-> locations, threw |-> r.threw]
     /\ UNCHANGED <<frame, cpu, human, game, hunt, ghost, shipObj>>

BProcessGuess ==
  \E coordinate \in GuessPool :
     /\ coordinate \in board.guesses \/ Cardinality(board.guesses) < MaxGuesses
     /\ LET r == processGuess(board, coordinate)
        IN /\ board' = r.board
           /\ last' = IF r.threw = None
                        THEN [op |-> "processGuess", arg |-> coordinate,
                              threw |-> None, ret |-> r.ret]
                        ELSE [op |-> "processGuess", arg |-> coordinate,
                              threw |-> r.threw]
     /\ UNCHANGED <<frame, cpu, human, game, hunt, ghost, shipObj>>

NextBoard == BPlaceShip \/ BProcessGuess

SpecBoard == InitBoard /\ [][NextBoard]_vars

-----------------------------------------------------------------------------
(* Properties of the stand-alone Board *)

\* the coordinates of all ships, ship after ship
RECURSIVE allLocations(_)
allLocations(ships) ==
  IF ships = <<>> THEN <<>> ELSE Head(ships).locations \o allLocations(Tail(ships))

\* no coordinate occurs twice among the cells of the ships of b
NonOverlapping(b) ==
  LET all == allLocations(b.ships)
  IN \A i, j \in 1..Len(all) : i # j => all[i] # all[j]

GuessStep == last'.op = "processGuess"

\* C1: a processGuess call with a coordinate that is already in the
\* guessed-set returns {hit: false, sunk: false, alreadyGuessed: true} and
\* leaves the grid, the guessed-set and the ships' hit flags as they were.
C1_RepeatGuessIsNoOp ==
  [][ (GuessStep /\ last'.arg \in board.guesses)
        => /\ last'.threw = None
           /\ last'.ret = AlreadyGuessed
           /\ board' = board ]_vars

\* a repeated guess of a cell whose first guess was a hit, and of one whose
\* first guess was a miss
C1_Witness ==
  /\ last.op = "processGuess" /\ last.threw = None
  /\ last.ret.alreadyGuessed
  /\ last.arg = <<"0","1">>
  /\ board.grid[<<0, 1>>] = "X"
  /\ \E p \in DOMAIN board.grid : board.grid[p] = "O"

\* C3: on a board with non-overlapping ships the first guess of a cell of
\* a ship returns hit = true, and sunk = true exactly when every other cell
\* of that ship is already hit; allShipsSunk is false before that guess,
\* true after it exactly when it sank the last unsunk ship, and once true
\* it stays true under further guesses.
C3_HitAndSunk ==
  [][ (GuessStep /\ NonOverlapping(board))
        => /\ \A k \in 1..Len(board.ships) :
                (last'.arg \notin board.guesses /\ occupies(board.ships[k], last'.arg))
                  => /\ last'.threw = None
                     /\ last'.ret.hit
                     /\ last'.ret.sunk =
                          (\A i \in 1..Len(board.ships[k].locations) :
                              board.ships[k].locations[i] # last'.arg
                                => board.ships[k].hits[i])
                     /\ ~allShipsSunk(board)
                     /\ allShipsSunk(board') =
                          (/\ last'.ret.sunk
                           /\ \A l \in 1..Len(board.ships) :
                                 l # k => isSunk(board.ships[l]))
           /\ (allShipsSunk(board) => allShipsSunk(board')) ]_vars

\* the third guess sinks a ship of three cells, the only ship left
C3_Witness ==
  /\ last.op = "processGuess" /\ last.threw = None
  /\ NonOverlapping(board)
  /\ last.ret.hit /\ last.ret.sunk
  /\ Len(board.ships[last.ret.ship].locations) = 3
  /\ allShipsSunk(board)

\* two ships without a common cell, both sunk, the last guess sinking the
\* second of them
C3_WitnessTwoShips ==
  /\ last.op = "processGuess" /\ last.threw = None
  /\ NonOverlapping(board)
  /\ Len(board.ships) = 2
  /\ \A k \in 1..2 : Len(board.ships[k].locations) >= 1
  /\ last.ret.sunk
  /\ allShipsSunk(board)

-----------------------------------------------------------------------------
(* Board.placeShipsRandomly, one loop iteration per step *)

maxAttempts == 1000

Exhausted == "Error: Could only place"

Orientations == {"horizontal", "vertical"}

InitPlace ==
  /\ shipObj = Idle
  /\ board \in {Board(s) : s \in PlaceSizes}
  /\ last = [op |-> "new"]
  /\ frame = Idle /\ cpu = Idle /\ human = Idle /\ game = Idle /\ hunt = Idle
  /\ ghost = Idle

\* placeShipsRandomly(numShips, shipLength) is entered
PCall ==
  \E numShips \in PlaceCounts, shipLength \in PlaceLengths :
     /\ frame = Idle
     /\ Len(board.ships) + numShips <= MaxFleet
     /\ frame' = [op |-> "placeShipsRandomly", numShips |-> numShips,
                   shipLength |-> shipLength, placedShips |-> 0, attempts |-> 0,
                   before |-> Len(board.ships)]
     /\ last' = [op |-> "call"]
     /\ UNCHANGED <<board, cpu, human, game, hunt, ghost, shipObj>>

PAttempt_pership ==
  /\ frame # Idle
  /\ frame.placedShips < frame.numShips /\ frame.attempts < maxAttempts
  /\ \E orientation \in Orientations :
       \E start \in getRandomStartPosition(board, frame.shipLength, orientation) :
          LET shipLocations == generateShipLocations(start[1], start[2],
                                                     frame.shipLength, orientation)
              can == canPlaceShip(board, shipLocations)
              pl == placeShip(board, shipLocations)
          IN IF can.threw # None
               THEN /\ frame' = Idle
                    /\ board' = board
                    /\ last' = [op |-> "placeShipsRandomly", threw |-> can.threw,
                                 numShips |-> frame.numShips,
                                 shipLength |-> frame.shipLength,
                                 before |-> frame.before]
               ELSE IF ~can.ret
                 THEN /\ frame' = [frame EXCEPT !.attempts = @ + 1]
                      /\ board' = board
                      /\ last' = last
               ELSE IF pl.threw # None
                 THEN /\ frame' = Idle
                      /\ board' = pl.board
                      /\ last' = [op |-> "placeShipsRandomly", threw |-> pl.threw,
                                   numShips |-> frame.numShips,
                                   shipLength |-> frame.shipLength,
                                   before |-> frame.before]
                 ELSE /\ frame' = [frame EXCEPT !.attempts = 0,
                                                 !.placedShips = @ + 1]
                      /\ board' = pl.board
                      /\ last' = last
  /\ UNCHANGED <<cpu, human, game, hunt, ghost, shipObj>>

\* one iteration of the while loop; an exception leaves the function
PAttempt ==
  /\ frame # Idle
  /\ frame.placedShips < frame.numShips /\ frame.attempts < maxAttempts
  /\ \E orientation \in Orientations :
       \E start \in getRandomStartPosition(board, frame.shipLength, orientation) :
          LET shipLocations == generateShipLocations(start[1], start[2],
                                                     frame.shipLength, orientation)
              can == canPlaceShip(board, shipLocations)
              pl == placeShip(board, shipLocations)
          IN IF can.threw # None
               THEN /\ frame' = Idle
                    /\ board' = board
                    /\ last' = [op |-> "placeShipsRandomly", threw |-> can.threw,
                                 numShips |-> frame.numShips,
                                 shipLength |-> frame.shipLength,
                                 before |-> frame.before]
               ELSE IF ~can.ret
                 THEN /\ frame' = [frame EXCEPT !.attempts = @ + 1]
                      /\ board' = board
                      /\ last' = last
               ELSE IF pl.threw # None
                 THEN /\ frame' = Idle
                      /\ board' = pl.board
                      /\ last' = [op |-> "placeShipsRandomly", threw |-> pl.threw,
                                   numShips |-> frame.numShips,
                                   shipLength |-> frame.shipLength,
                                   before |-> frame.before]
                 ELSE /\ frame' = [frame EXCEPT !.attempts = @ + 1,
                                                 !.placedShips = @ + 1]
                      /\ board' = pl.board
                      /\ last' = last
  /\ UNCHANGED <<cpu, human, game, hunt, ghost, shipObj>>

PExit_total ==
  /\ frame # Idle
  /\ ~(frame.placedShips < frame.numShips /\ frame.attempts < maxAttempts)
  /\ frame' = Idle
  /\ last' = [op |-> "placeShipsRandomly",
               threw |-> IF frame.placedShips < frame.numShips
                           THEN Exhausted ELSE None,
               numShips |-> frame.numShips, shipLength |-> frame.shipLength,
               before |-> frame.before, placedShips |-> Len(board.ships)]
  /\ UNCHANGED <<board, cpu, human, game, hunt, ghost, shipObj>>

\* the loop condition is false: return, or throw when ships are missing
PExit ==
  /\ frame # Idle
  /\ ~(frame.placedShips < frame.numShips /\ frame.attempts < maxAttempts)
  /\ frame' = Idle
  /\ last' = [op |-> "placeShipsRandomly",
               threw |-> IF frame.placedShips < frame.numShips
                           THEN Exhausted ELSE None,
               numShips |-> frame.numShips, shipLength |-> frame.shipLength,
               before |-> frame.before, placedShips |-> frame.placedShips]
  /\ UNCHANGED <<board, cpu, human, game, hunt, ghost, shipObj>>

NextPlace == PCall \/ PAttempt \/ PExit

SpecPlace == InitPlace /\ [][NextPlace]_vars

\* one call of placeShipsRandomly on a new board, from its entry on; the
\* call runs on until it returns or throws
InitPlaceCall ==
  /\ shipObj = Idle
  /\ board \in {Board(s) : s \in PlaceSizes}
  /\ frame \in {[op |-> "placeShipsRandomly", numShips |-> numShips,
                  shipLength |-> shipLength, placedShips |-> 0, attempts |-> 0,
                  before |-> 0] :
                   numShips \in PlaceCounts, shipLength \in PlaceLengths}
  /\ last = [op |-> "call"]
  /\ cpu = Idle /\ human = Idle /\ game = Idle /\ hunt = Idle /\ ghost = Idle

NextPlaceCall == PAttempt \/ PExit

SpecPlaceCall == InitPlaceCall /\ [][NextPlaceCall]_vars /\ WF_vars(NextPlaceCall)

\* C2: on a board whose ships were all placed by placeShipsRandomly, in one
\* or several calls that succeeded or failed, no coordinate is occupied by
\* two ships: every ship-occupied coordinate belongs to exactly one ship.
C2_NoOverlap == NonOverlapping(board)

\* a second call has added a ship of two cells next to a ship of one cell
\* placed by an earlier call
C2_Witness ==
  /\ last.op = "placeShipsRandomly" /\ last.threw = None
  /\ last.before = 1
  /\ Len(board.ships) = 2
  /\ Len(board.ships[1].locations) = 1
  /\ Len(board.ships[2].locations) = 2

\* a call for two ships has failed after placing one
C2_WitnessFailed ==
  /\ last.op = "placeShipsRandomly" /\ last.threw = Exhausted
  /\ last.numShips = 2 /\ last.shipLength = 2
  /\ Len(board.ships) = 1

\* a call of placeShipsRandomly has ended
PlaceDone == last.op = "placeShipsRandomly"

\* C15: a call of placeShipsRandomly that does not place its ships fails
\* with the placement-exhausted error and with no other error.
C15_OnlyExhaustedError ==
  (PlaceDone /\ last.threw # None) => last.threw = Exhausted

\* C17: a call of placeShipsRandomly counts every attempt, successful or
\* not, in one counter that is never reset and never passes 1000; it
\* throws the placement-exhausted error only with the counter at 1000; and
\* every call that was entered ends, by returning or by throwing.
C17_PlacementBudget ==
  /\ [](frame # Idle => frame.attempts <= 1000)
  /\ [][(frame # Idle /\ frame' # Idle) => frame'.attempts = frame.attempts + 1]_vars
  /\ [][(frame # Idle /\ last'.op = "placeShipsRandomly" /\ last'.threw = Exhausted)
          => frame.attempts = 1000]_vars
  /\ <>(frame = Idle)

\* a call has placed a ship and then used up the attempts that were left
C17_Witness ==
  /\ frame # Idle /\ frame.attempts = 1000
  /\ frame.placedShips = 1 /\ frame.numShips = 2

\* locations are L cells of a board of size S in one row, left to right, or
\* in one column, top to bottom, each next to the one before
IsLine(locations, L, S) ==
  /\ Len(locations) = L
  /\ \E r \in 0..(S - 1), c \in 0..(S - 1) :
        \/ c + L <= S /\ \A i \in 1..L : locations[i] = <<DigitChars[r + 1], DigitChars[c + i]>>
        \/ r + L <= S /\ \A i \in 1..L : locations[i] = <<DigitChars[r + i], DigitChars[c + 1]>>

\* C16: when placeShipsRandomly(n, L) returns normally and 1 <= L <= size,
\* the call has added exactly n ships, each of L distinct in-bounds cells in
\* one horizontal or vertical line, all marked 'S'; and whenever a ship is
\* added during such a call its cells were water just before.
C16_PlacedShipsAreLines ==
  /\ []((PlaceDone /\ last.threw = None
           /\ 1 <= last.shipLength /\ last.shipLength <= board.size)
          => /\ Len(board.ships) = last.before + last.numShips
             /\ \A k \in (last.before + 1)..Len(board.ships) :
                   LET locations == board.ships[k].locations
                   IN /\ IsLine(locations, last.shipLength, board.size)
                      /\ Cardinality(Range(locations)) = last.shipLength
                      /\ \A i \in 1..Len(locations) :
                            board.grid[<<parseInt(locations[i][1]),
                                         parseInt(locations[i][2])>>] = "S")
  /\ [][(frame # Idle /\ Len(board'.ships) = Len(board.ships) + 1
           /\ 1 <= frame.shipLength /\ frame.shipLength <= board.size)
          => LET locations == board'.ships[Len(board'.ships)].locations
             IN \A i \in 1..Len(locations) :
                  LET cell == <<parseInt(locations[i][1]), parseInt(locations[i][2])>>
                  IN /\ cell \in DOMAIN board.grid
                     /\ board.grid[cell] = "~" /\ board'.grid[cell] = "S"]_vars

\* one call has placed two ships of two cells each
C16_Witness ==
  /\ PlaceDone /\ last.threw = None
  /\ last.numShips = 2 /\ last.shipLength = 2 /\ last.before = 0
  /\ Len(board.ships) = 2
  /\ \A k \in 1..2 : IsLine(board.ships[k].locations, 2, board.size)

-----------------------------------------------------------------------------
(* Player, HumanPlayer, CPUPlayer *)

\* new Board(): the default size
DefaultSize == 10

\* the literal 10 of generateHuntGuess and validateGuess
TenRows == 10

Null == <<"null">>

Player == [board |-> Board(DefaultSize), opponentBoard |-> Board(DefaultSize)]

HumanPlayer == Player

CPUPlayer ==
  [board |-> Board(DefaultSize), opponentBoard |-> Board(DefaultSize),
   mode |-> "hunt", targetQueue |-> <<>>, lastHit |-> Null]

receiveGuess(p, coordinate) ==
  LET r == processGuess(p.board, coordinate)
  IN [r EXCEPT !.board = [p EXCEPT !.board = r.board]]

isDefeated(p) == allShipsSunk(p.board)

getRemainingShips(p) == getRemainingShipsCount(p.board)

\* the coordinates `${row}${col}` with row and col in 0..9
Cells == {ToStr(row) \o ToStr(col) : row \in 0..(TenRows - 1), col \in 0..(TenRows - 1)}

\* the inner loop of the fallback scan of generateHuntGuess: the first
\* coordinate of the row, from col on, that is not guessed; Null if none
RECURSIVE scanCols(_, _, _)
scanCols(b, row, col) ==
  IF col >= TenRows THEN Null
  ELSE IF ~hasBeenGuessed(b, ToStr(row) \o ToStr(col)) THEN ToStr(row) \o ToStr(col)
  ELSE scanCols(b, row, col + 1)

\* the outer loop of the fallback scan, from row on
RECURSIVE scanRows(_, _)
scanRows(b, row) ==
  IF row >= TenRows THEN Null
  ELSE IF scanCols(b, row, 0) # Null THEN scanCols(b, row, 0)
  ELSE scanRows(b, row + 1)

generateHuntGuess_nocheck(p, samples) == samples

\* CPUPlayer.generateHuntGuess: the coordinates it can return when
\* Math.random yields the coordinates of samples.  A sample that is not
\* guessed ends the loop and is returned if fewer than 100 samples were
\* drawn; after 100 samples the scan returns the first unguessed coordinate,
\* and the last sample if the scan finds none.
generateHuntGuess(p, samples) ==
  LET b == p.opponentBoard
  IN {c \in samples : c \notin b.guesses}
       \cup (IF samples \cap b.guesses = {} THEN {}
              ELSE IF scanRows(b, 0) # Null THEN {scanRows(b, 0)}
              ELSE samples)

\* while (hasBeenGuessed(coordinate) && targetQueue.length > 0) shift
RECURSIVE skipGuessed(_, _, _)
skipGuessed(b, coordinate, queue) ==
  IF hasBeenGuessed(b, coordinate) /\ Len(queue) > 0
    THEN skipGuessed(b, Head(queue), Tail(queue))
    ELSE [coordinate |-> coordinate, queue |-> queue]

generateGuess_rehunt(p, h) ==
  IF p.mode = "target" /\ Len(p.targetQueue) > 0
    THEN LET s == skipGuessed(p.opponentBoard, Head(p.targetQueue), Tail(p.targetQueue))
             p1 == [p EXCEPT !.targetQueue = s.queue, !.mode = "hunt"]
         IN IF hasBeenGuessed(p.opponentBoard, s.coordinate)
              THEN [cpu |-> p1, ret |-> h, hunted |-> TRUE]
              ELSE [cpu |-> p1, ret |-> s.coordinate, hunted |-> FALSE]
    ELSE [cpu |-> [p EXCEPT !.mode = "hunt"], ret |-> h, hunted |-> TRUE]

generateGuess_peek(p, h) ==
  IF /\ p.mode = "target"
     /\ \E i \in 1..Len(p.targetQueue) : ~hasBeenGuessed(p.opponentBoard, p.targetQueue[i])
    THEN [cpu |-> p,
          ret |-> p.targetQueue[CHOOSE i \in 1..Len(p.targetQueue) :
                    /\ ~hasBeenGuessed(p.opponentBoard, p.targetQueue[i])
                    /\ \A j \in 1..(i - 1) :
                          hasBeenGuessed(p.opponentBoard, p.targetQueue[j])],
          hunted |-> FALSE]
    ELSE [cpu |-> p, ret |-> h, hunted |-> TRUE]

generateGuess_noskip(p, h) ==
  IF p.mode = "target" /\ Len(p.targetQueue) > 0
    THEN [cpu |-> [p EXCEPT !.targetQueue = Tail(p.targetQueue)],
          ret |-> Head(p.targetQueue), hunted |-> FALSE]
    ELSE [cpu |-> [p EXCEPT !.mode = "hunt"], ret |-> h, hunted |-> TRUE]

\* CPUPlayer.generateGuess; h is what generateHuntGuess returns if called
generateGuess(p, h) ==
  IF p.mode = "target" /\ Len(p.targetQueue) > 0
    THEN LET s == skipGuessed(p.opponentBoard, Head(p.targetQueue), Tail(p.targetQueue))
             p1 == [p EXCEPT !.targetQueue = s.queue]
         IN IF hasBeenGuessed(p.opponentBoard, s.coordinate)
              THEN [cpu |-> [p1 EXCEPT !.mode = "hunt"], ret |-> h, hunted |-> TRUE]
              ELSE [cpu |-> p1, ret |-> s.coordinate, hunted |-> FALSE]
    ELSE [cpu |-> [p EXCEPT !.mode = "hunt"], ret |-> h, hunted |-> TRUE]

\* row - 1, col + 1, ... with NaN + d = NaN
plus(x, d) == IF isNaN(x) THEN NaN ELSE x + d

\* adjacent.forEach(...) from index i on
RECURSIVE pushAdjacent(_, _, _)
pushAdjacent(p, adjacent, i) ==
  IF i > Len(adjacent) THEN p
  ELSE LET r == adjacent[i][1]
           c == adjacent[i][2]
           adjCoordinate == ToStr(r) \o ToStr(c)
       IN IF /\ isValidCoordinate(p.opponentBoard, r, c)
             /\ ~hasBeenGuessed(p.opponentBoard, adjCoordinate)
             /\ adjCoordinate \notin Range(p.targetQueue)
            THEN pushAdjacent([p EXCEPT !.targetQueue = Append(@, adjCoordinate)],
                              adjacent, i + 1)
            ELSE pushAdjacent(p, adjacent, i + 1)

addAdjacentTargets_requeue(p, coordinate) ==
  LET pc == parseCoordinate(coordinate)
  IN IF pc.threw # None THEN [threw |-> pc.threw, cpu |-> p]
     ELSE LET row == pc.val[1]
              col == pc.val[2]
              q == pushAdjacent([p EXCEPT !.targetQueue = <<>>],
                                << <<plus(row, -1), col>>, <<plus(row, 1), col>>,
                                   <<row, plus(col, -1)>>, <<row, plus(col, 1)>> >>, 1)
          IN [threw |-> None,
              cpu |-> [q EXCEPT !.targetQueue = p.targetQueue \o @]]

addAdjacentTargets_diag(p, coordinate) ==
  LET pc == parseCoordinate(coordinate)
  IN IF pc.threw # None THEN [threw |-> pc.threw, cpu |-> p]
     ELSE LET row == pc.val[1]
              col == pc.val[2]
          IN [threw |-> None,
              cpu |-> pushAdjacent(p, << <<plus(row, -1), col>>, <<plus(row, 1), col>>,
                                         <<row, plus(col, -1)>>, <<row, plus(col, 1)>>,
                                         <<plus(row, 1), plus(col, 1)>> >>, 1)]

\* CPUPlayer.addAdjacentTargets: up, down, left, right
addAdjacentTargets(p, coordinate) ==
  LET pc == parseCoordinate(coordinate)
  IN IF pc.threw # None THEN [threw |-> pc.threw, cpu |-> p]
     ELSE LET row == pc.val[1]
              col == pc.val[2]
          IN [threw |-> None,
              cpu |-> pushAdjacent(p, << <<plus(row, -1), col>>, <<plus(row, 1), col>>,
                                         <<row, plus(col, -1)>>, <<row, plus(col, 1)>> >>, 1)]

processGuessResult_misshunt(p, coordinate, result) ==
  LET pc == parseCoordinate(coordinate)
  IN IF pc.threw # None THEN [threw |-> pc.threw, cpu |-> p]
     ELSE
       LET p1 == [p EXCEPT !.opponentBoard.guesses = @ \cup {coordinate}]
           w == gridSet(p1.opponentBoard, pc.val[1], pc.val[2],
                        IF result.hit THEN "X" ELSE "O")
           p2 == [p1 EXCEPT !.opponentBoard = w.board]
       IN IF w.threw # None THEN [threw |-> w.threw, cpu |-> p1]
          ELSE IF result.hit
            THEN IF result.sunk
                   THEN [threw |-> None,
                         cpu |-> [p2 EXCEPT !.lastHit = coordinate, !.mode = "hunt",
                                            !.targetQueue = <<>>]]
                   ELSE addAdjacentTargets(
                          [p2 EXCEPT !.lastHit = coordinate, !.mode = "target"], coordinate)
            ELSE [threw |-> None, cpu |-> [p2 EXCEPT !.mode = "hunt"]]

processGuessResult_keepqueue(p, coordinate, result) ==
  LET pc == parseCoordinate(coordinate)
  IN IF pc.threw # None THEN [threw |-> pc.threw, cpu |-> p]
     ELSE
       LET p1 == [p EXCEPT !.opponentBoard.guesses = @ \cup {coordinate}]
           w == gridSet(p1.opponentBoard, pc.val[1], pc.val[2],
                        IF result.hit THEN "X" ELSE "O")
           p2 == [p1 EXCEPT !.opponentBoard = w.board]
       IN IF w.threw # None THEN [threw |-> w.threw, cpu |-> p1]
          ELSE IF result.hit
            THEN IF result.sunk
                   THEN [threw |-> None,
                         cpu |-> [p2 EXCEPT !.lastHit = coordinate, !.mode = "hunt"]]
                   ELSE addAdjacentTargets(
                          [p2 EXCEPT !.lastHit = coordinate, !.mode = "target"], coordinate)
            ELSE [threw |-> None, cpu |-> p2]

\* CPUPlayer.processGuessResult
processGuessResult(p, coordinate, result) ==
  LET pc == parseCoordinate(coordinate)
  IN IF pc.threw # None THEN [threw |-> pc.threw, cpu |-> p]
     ELSE
       LET p1 == [p EXCEPT !.opponentBoard.guesses = @ \cup {coordinate}]
           w == gridSet(p1.opponentBoard, pc.val[1], pc.val[2],
                        IF result.hit THEN "X" ELSE "O")
           p2 == [p1 EXCEPT !.opponentBoard = w.board]
       IN IF w.threw # None THEN [threw |-> w.threw, cpu |-> p1]
          ELSE IF result.hit
            THEN IF result.sunk
                   THEN [threw |-> None,
                         cpu |-> [p2 EXCEPT !.lastHit = coordinate, !.mode = "hunt",
                                            !.targetQueue = <<>>]]
                   ELSE addAdjacentTargets(
                          [p2 EXCEPT !.lastHit = coordinate, !.mode = "target"], coordinate)
            ELSE [threw |-> None,
                  cpu |-> IF p2.mode = "target" /\ Len(p2.targetQueue) = 0
                            THEN [p2 EXCEPT !.mode = "hunt"] ELSE p2]

-----------------------------------------------------------------------------
(* The stand-alone CPUPlayer: a client that calls generateGuess and        *)
(* processGuessResult, with the coordinate generateGuess returned or with  *)
(* another one, and addAdjacentTargets                                     *)

\* coordinates handed to processGuessResult directly, and the coordinates
\* Math.random yields in generateHuntGuess
AIPool == { <<"0","0">>, <<"0","1">>, <<"1","1">>, <<"9","9">> }

HuntSamples == AIPool

ResultPool ==
  { [hit |-> FALSE, sunk |-> FALSE, alreadyGuessed |-> FALSE],
    [hit |-> TRUE, sunk |-> FALSE, alreadyGuessed |-> FALSE],
    [hit |-> TRUE, sunk |-> TRUE, alreadyGuessed |-> FALSE] }

\* ghost.adjacent tells whether the client has called addAdjacentTargets;
\* ghost.direct counts the calls made outside the cycle generateGuess(),
\* processGuessResult(the coordinate returned, some result)
InitAI ==
  /\ shipObj = Idle
  /\ cpu = CPUPlayer
  /\ last = [op |-> "new"]
  /\ ghost = [direct |-> 0, adjacent |-> FALSE]
  /\ board = Idle /\ frame = Idle /\ human = Idle /\ game = Idle /\ hunt = Idle

AGenerateGuess ==
  \E h \in generateHuntGuess(cpu, HuntSamples) :
     LET r == generateGuess(cpu, h)
     IN /\ last.op = "generateGuess" => ghost.direct < MaxDirect
        /\ cpu' = r.cpu
        /\ last' = [op |-> "generateGuess", ret |-> r.ret, hunted |-> r.hunted,
                     pre |-> [mode |-> cpu.mode, targetQueue |-> cpu.targetQueue]]
        /\ ghost' = IF last.op = "generateGuess"
                       THEN [ghost EXCEPT !.direct = @ + 1] ELSE ghost
        /\ UNCHANGED <<board, frame, human, game, hunt, shipObj>>

\* processGuessResult with the coordinate generateGuess has just returned
AProcessGuessResult ==
  \E result \in ResultPool :
     /\ last.op = "generateGuess"
     /\ last.ret \in cpu.opponentBoard.guesses
          \/ Cardinality(cpu.opponentBoard.guesses) < MaxAIGuesses
     /\ LET r == processGuessResult(cpu, last.ret, result)
        IN /\ cpu' = r.cpu
           /\ last' = [op |-> "processGuessResult", arg |-> last.ret,
                        result |-> result, threw |-> r.threw,
                        pre |-> [mode |-> cpu.mode, targetQueue |-> cpu.targetQueue]]
     /\ UNCHANGED <<board, frame, human, game, hunt, ghost, shipObj>>

\* processGuessResult with a coordinate of the caller's choice
AProcessDirect ==
  \E coordinate \in AIPool, result \in ResultPool :
     /\ ghost.direct < MaxDirect
     /\ coordinate \in cpu.opponentBoard.guesses
          \/ Cardinality(cpu.opponentBoard.guesses) < MaxAIGuesses
     /\ LET r == processGuessResult(cpu, coordinate, result)
        IN /\ cpu' = r.cpu
           /\ last' = [op |-> "processGuessResult", arg |-> coordinate,
                        result |-> result, threw |-> r.threw,
                        pre |-> [mode |-> cpu.mode, targetQueue |-> cpu.targetQueue]]
     /\ ghost' = [ghost EXCEPT !.direct = @ + 1]
     /\ UNCHANGED <<board, frame, human, game, hunt, shipObj>>

\* coordinates the client hands to addAdjacentTargets
AdjacentPool == { <<"1","1">> }

\* addAdjacentTargets called by the client
AAddAdjacentTargets ==
  \E coordinate \in AdjacentPool :
     /\ ghost.direct < MaxDirect
     /\ LET r == addAdjacentTargets(cpu, coordinate)
        IN /\ cpu' = r.cpu
           /\ last' = [op |-> "addAdjacentTargets", arg |-> coordinate,
                        threw |-> r.threw,
                        pre |-> [mode |-> cpu.mode, targetQueue |-> cpu.targetQueue]]
     /\ ghost' = [direct |-> ghost.direct + 1, adjacent |-> TRUE]
     /\ UNCHANGED <<board, frame, human, game, hunt, shipObj>>

NextAI ==
  AGenerateGuess \/ AProcessGuessResult \/ AProcessDirect \/ AAddAdjacentTargets

SpecAI == InitAI /\ [][NextAI]_vars

-----------------------------------------------------------------------------
(* Properties of the stand-alone CPUPlayer.  last.pre holds the mode and   *)
(* the target queue the call found.                                        *)

Coord(row, col) == <<DigitChars[row + 1], DigitChars[col + 1]>>

\* the orthogonal neighbours of a cell that lie on the 10 x 10 board, in
\* the order up, down, left, right
Neighbours(c) ==
  LET row == parseInt(c[1])
      col == parseInt(c[2])
  IN (IF row > 0 THEN <<Coord(row - 1, col)>> ELSE <<>>)
       \o (IF row < TenRows - 1 THEN <<Coord(row + 1, col)>> ELSE <<>>)
       \o (IF col > 0 THEN <<Coord(row, col - 1)>> ELSE <<>>)
       \o (IF col < TenRows - 1 THEN <<Coord(row, col + 1)>> ELSE <<>>)

Processed == last.op = "processGuessResult" /\ last.threw = None

\* C6: processGuessResult(c, {hit: true, sunk: false}) sets the mode to
\* target and appends to the queue, in the order up, down, left, right, the
\* neighbours of c that are in bounds, not guessed and not yet queued;
\* from hunt with an empty queue the queue then holds exactly the in-bounds
\* unguessed neighbours, 4 of them for an interior cell whose neighbours are
\* all unguessed, 2 for such a corner.
C6_HitEnqueuesNeighbours ==
  (Processed /\ last.result.hit /\ ~last.result.sunk /\ last.arg \in Cells)
    => LET G == cpu.opponentBoard.guesses
           Fresh(n) == n \notin G /\ n \notin Range(last.pre.targetQueue)
           Open(n) == n \notin G
       IN /\ cpu.mode = "target"
          /\ cpu.targetQueue = last.pre.targetQueue \o SelectSeq(Neighbours(last.arg), Fresh)
          /\ (last.pre.mode = "hunt" /\ last.pre.targetQueue = <<>>)
               => /\ cpu.targetQueue = SelectSeq(Neighbours(last.arg), Open)
                  /\ (Range(Neighbours(last.arg)) \cap G = {})
                       => Len(cpu.targetQueue) =
                            (IF last.arg \in {Coord(0, 0), Coord(0, 9), Coord(9, 0), Coord(9, 9)}
                               THEN 2
                             ELSE IF \E i \in 1..2 : last.arg[i] \in {"0", "9"}
                               THEN 3 ELSE 4)

\* a hit on the interior cell 11 in hunt mode has queued its four neighbours
C6_Witness ==
  /\ Processed /\ last.result.hit /\ ~last.result.sunk
  /\ last.arg = Coord(1, 1)
  /\ last.pre.mode = "hunt" /\ last.pre.targetQueue = <<>>
  /\ cpu.targetQueue = <<Coord(0, 1), Coord(2, 1), Coord(1, 0), Coord(1, 2)>>

\* a hit on the corner 99 has queued its two neighbours
C6_WitnessCorner ==
  /\ Processed /\ last.result.hit /\ ~last.result.sunk
  /\ last.arg = Coord(9, 9)
  /\ last.pre.mode = "hunt" /\ last.pre.targetQueue = <<>>
  /\ cpu.targetQueue = <<Coord(8, 9), Coord(9, 8)>>

\* a hit next to a guessed cell and to a queued cell has queued neither
C6_WitnessFiltered ==
  /\ Processed /\ last.result.hit /\ ~last.result.sunk
  /\ last.pre.targetQueue # <<>>
  /\ \E i \in 1..Len(Neighbours(last.arg)) :
        Neighbours(last.arg)[i] \in Range(last.pre.targetQueue)
  /\ \E i \in 1..Len(Neighbours(last.arg)) :
        Neighbours(last.arg)[i] \in cpu.opponentBoard.guesses

\* C7: after processGuessResult(c, {hit: true, sunk: true}) the mode is
\* hunt and the target queue is empty, whatever they were before.
C7_SunkResetsToHunt ==
  (Processed /\ last.result.hit /\ last.result.sunk)
    => cpu.mode = "hunt" /\ cpu.targetQueue = <<>>

\* a sunk result arrived in target mode with candidates queued
C7_Witness ==
  /\ Processed /\ last.result.hit /\ last.result.sunk
  /\ last.pre.mode = "target" /\ Len(last.pre.targetQueue) >= 2

\* C8: on a miss the target queue is unchanged; target mode with an empty
\* queue becomes hunt, target mode with a non-empty queue stays target,
\* hunt mode stays hunt.
C8_MissKeepsQueue ==
  (Processed /\ ~last.result.hit)
    => /\ cpu.targetQueue = last.pre.targetQueue
       /\ cpu.mode = (IF last.pre.mode = "target" /\ last.pre.targetQueue # <<>>
                        THEN "target" ELSE "hunt")

\* a miss in target mode with candidates left
C8_Witness ==
  /\ Processed /\ ~last.result.hit
  /\ last.pre.mode = "target" /\ last.pre.targetQueue # <<>>
  /\ cpu.mode = "target"

\* a miss in target mode with no candidate left
C8_WitnessEmpty ==
  /\ Processed /\ ~last.result.hit
  /\ last.pre.mode = "target" /\ last.pre.targetQueue = <<>>
  /\ cpu.mode = "hunt"

\* C9: generateGuess in target mode with a non-empty queue removes the
\* candidates up to and including the first one that is not guessed and
\* returns that one, the mode staying target; if all are guessed the queue
\* ends empty, the mode becomes hunt and the guess comes from
\* generateHuntGuess.  In hunt mode, or with an empty queue, the mode
\* becomes hunt, the queue is untouched and the guess comes from
\* generateHuntGuess.
C9_GenerateGuess ==
  (last.op = "generateGuess")
    => LET G == cpu.opponentBoard.guesses
           q == last.pre.targetQueue
       IN IF last.pre.mode = "target" /\ q # <<>>
            THEN IF \E i \in 1..Len(q) : q[i] \notin G
                   THEN LET i == CHOOSE i \in 1..Len(q) :
                                    q[i] \notin G /\ \A j \in 1..(i - 1) : q[j] \in G
                        IN /\ last.ret = q[i]
                           /\ ~last.hunted
                           /\ cpu.targetQueue = SubSeq(q, i + 1, Len(q))
                           /\ cpu.mode = "target"
                   ELSE /\ last.hunted /\ last.ret \in Cells
                        /\ cpu.targetQueue = <<>>
                        /\ cpu.mode = "hunt"
            ELSE /\ last.hunted /\ last.ret \in Cells
                 /\ cpu.targetQueue = q
                 /\ cpu.mode = "hunt"

\* generateGuess has skipped a guessed candidate and returned the next one
C9_Witness ==
  /\ last.op = "generateGuess" /\ ~last.hunted
  /\ Len(last.pre.targetQueue) >= 2
  /\ last.pre.targetQueue[1] \in cpu.opponentBoard.guesses
  /\ last.ret = last.pre.targetQueue[2]

\* every queued candidate was guessed: the guess is a hunt guess
C9_WitnessFallThrough ==
  /\ last.op = "generateGuess" /\ last.hunted
  /\ last.pre.mode = "target" /\ last.pre.targetQueue # <<>>
  /\ cpu.mode = "hunt" /\ cpu.targetQueue = <<>>

\* C11: the coordinate generateGuess returns is not in the guessed-set of
\* the tracking board when it is returned (an unguessed coordinate always
\* remains here), and processGuessResult called with it puts it into the
\* guessed-set, so that in a run of cycles no guess equals an earlier one.
C11_NeverRepeatsGuess ==
  /\ [](last.op = "generateGuess" => last.ret \notin cpu.opponentBoard.guesses)
  /\ [][(last.op = "generateGuess" /\ last'.op = "processGuessResult"
            /\ last'.arg = last.ret)
          => last.ret \in cpu'.opponentBoard.guesses]_vars

\* in a run of cycles only, with two coordinates guessed, generateGuess has
\* returned a queued coordinate that is not guessed
C11_Witness ==
  /\ last.op = "generateGuess" /\ ghost.direct = 0
  /\ Cardinality(cpu.opponentBoard.guesses) >= 2
  /\ ~last.hunted /\ last.ret \in Cells \ cpu.opponentBoard.guesses

\* in a run of cycles only, a hunt guess after two guesses
C11_WitnessHunt ==
  /\ last.op = "generateGuess" /\ ghost.direct = 0
  /\ Cardinality(cpu.opponentBoard.guesses) >= 2
  /\ last.hunted /\ last.ret \in Cells \ cpu.opponentBoard.guesses

-----------------------------------------------------------------------------
(* CPUPlayer.generateHuntGuess, one sample per step *)

huntMaxAttempts == 100

MissResult == [hit |-> FALSE, sunk |-> FALSE, alreadyGuessed |-> FALSE]

\* the CPU player after processGuessResult(c, miss) for every cell c of G:
\* each call adds c to the guessed-set of the tracking board and marks its
\* cell 'O'; in hunt mode nothing else changes
afterMisses(G) ==
  [CPUPlayer EXCEPT
     !.opponentBoard.guesses = G,
     !.opponentBoard.grid =
        [q \in DOMAIN @ |-> IF ToStr(q[1]) \o ToStr(q[2]) \in G THEN "O" ELSE "~"]]

\* the cells left open on a nearly full tracking board, or guessed on a
\* nearly empty one
OpenPool == { <<"0","0">>, <<"0","9">>, <<"9","9">> }

\* the values Math.floor(Math.random() * 10) takes in the runs explored
SampleDigits == {0, 5, 9}

OpenSets == {U \in SUBSET OpenPool : Cardinality(U) <= MaxOpen}

InitHunt ==
  /\ shipObj = Idle
  /\ cpu \in {afterMisses(Cells \ U) : U \in OpenSets}
              \cup {afterMisses(U) : U \in OpenSets}
  /\ hunt = [pc |-> "loop", attempts |-> 0, coordinate |-> Null]
  /\ last = [op |-> "new"]
  /\ board = Idle /\ frame = Idle /\ human = Idle /\ game = Idle /\ ghost = Idle

\* the body of the do-while loop and its condition
HSample ==
  \E row \in RandFloor(TenRows) \cap SampleDigits,
     col \in RandFloor(TenRows) \cap SampleDigits :
     LET coordinate == ToStr(row) \o ToStr(col)
         attempts == hunt.attempts + 1
     IN /\ hunt.pc = "loop"
        /\ hunt' = [pc |-> IF hasBeenGuessed(cpu.opponentBoard, coordinate)
                                 /\ attempts < huntMaxAttempts
                              THEN "loop" ELSE "after",
                     attempts |-> attempts, coordinate |-> coordinate]
        /\ UNCHANGED <<board, last, frame, cpu, human, game, ghost, shipObj>>

HReturn_noscan ==
  /\ hunt.pc = "after"
  /\ hunt' = [hunt EXCEPT !.pc = "done"]
  /\ last' = [op |-> "generateHuntGuess", ret |-> hunt.coordinate]
  /\ UNCHANGED <<board, frame, cpu, human, game, ghost, shipObj>>

\* after the loop: the fallback scan when 100 samples were drawn
HReturn ==
  /\ hunt.pc = "after"
  /\ hunt' = [hunt EXCEPT !.pc = "done"]
  /\ last' = [op |-> "generateHuntGuess",
               ret |-> IF hunt.attempts >= huntMaxAttempts
                            /\ scanRows(cpu.opponentBoard, 0) # Null
                         THEN scanRows(cpu.opponentBoard, 0)
                         ELSE hunt.coordinate]
  /\ UNCHANGED <<board, frame, cpu, human, game, ghost, shipObj>>

NextHunt == HSample \/ HReturn

SpecHunt == InitHunt /\ [][NextHunt]_vars

\* the function runs on until it returns
SpecHuntFair == SpecHunt /\ WF_vars(NextHunt)

HuntOpen == Cells \ cpu.opponentBoard.guesses

HuntBounded ==
  /\ hunt.attempts <= huntMaxAttempts
  /\ hunt.pc = "loop" => hunt.attempts < huntMaxAttempts
  /\ hunt.pc = "done"
       => /\ last.op = "generateHuntGuess"
          /\ HuntOpen # {} => last.ret \in HuntOpen
          /\ \A u \in Cells : HuntOpen = {u} => last.ret = u

\* C10: generateHuntGuess draws at most 100 samples, each step of the loop
\* adding one, and returns; when some coordinate of the 10 x 10 board is
\* not guessed the coordinate returned is not guessed, and when exactly one
\* is not guessed that one is returned.
C10_HuntTerminates ==
  /\ []HuntBounded
  /\ [][hunt.pc = "loop" => hunt'.attempts = hunt.attempts + 1]_vars
  /\ <>(hunt.pc = "done")

\* the coordinates the stepwise function returns are those of the summary
\* used by generateGuess
HuntSummarySound ==
  hunt.pc = "done"
    => last.ret \in generateHuntGuess(cpu, {ToStr(row) \o ToStr(col) :
                                               row \in SampleDigits, col \in SampleDigits})

\* only 09 is open, all 100 samples were guessed coordinates, and the scan
\* has returned 09
C10_Witness ==
  /\ hunt.pc = "done" /\ hunt.attempts = huntMaxAttempts
  /\ HuntOpen = {<<"0","9">>}
  /\ hasBeenGuessed(cpu.opponentBoard, hunt.coordinate)
  /\ last.ret = <<"0","9">>

-----------------------------------------------------------------------------
(* Game: startGame, the game loop and the two turns                        *)

\* the largest number of guesses the human has accepted in a game explored
MaxRounds == 3

\* an option that is not given
Undefined == -2000

\* a || b for numbers: b when a is undefined, 0 or NaN
orElse(a, b) == IF a = Undefined \/ a = 0 \/ isNaN(a) THEN b ELSE a

\* the characters String.prototype.trim strips: WhiteSpace and
\* LineTerminator of ECMAScript.  A character the strings of TLA+ cannot
\* hold is the string that names its code point
Whitespace ==
  { "\t", "\n", "\f", "\r", " ",
    "U+000B", "U+00A0", "U+1680", "U+2000", "U+2001", "U+2002", "U+2003",
    "U+2004", "U+2005", "U+2006", "U+2007", "U+2008", "U+2009", "U+200A",
    "U+2028", "U+2029", "U+202F", "U+205F", "U+3000", "U+FEFF" }

RECURSIVE trimStart(_)
trimStart(str) ==
  IF Len(str) > 0 /\ Head(str) \in Whitespace THEN trimStart(Tail(str)) ELSE str

RECURSIVE trimEnd(_)
trimEnd(str) ==
  IF Len(str) > 0 /\ str[Len(str)] \in Whitespace
    THEN trimEnd(SubSeq(str, 1, Len(str) - 1)) ELSE str

\* String.prototype.trim
trim(str) == trimEnd(trimStart(str))

LengthError == "Input must be exactly two digits (e.g., 00, 34, 98)."
RangeError == "Please enter valid row and column numbers between 0 and 9."
RepeatError == "You already guessed that location!"

validateGuess_norepeat(p, input) ==
  IF input = Null \/ Len(input) = 0 \/ Len(input) # 2
    THEN [isValid |-> FALSE, error |-> LengthError]
    ELSE LET row == parseInt(input[1])
             col == parseInt(input[2])
         IN IF isNaN(row) \/ isNaN(col) \/ row < 0 \/ row >= TenRows
                 \/ col < 0 \/ col >= TenRows
              THEN [isValid |-> FALSE, error |-> RangeError]
              ELSE [isValid |-> TRUE, coordinate |-> input]

validateGuess_rowonly(p, input) ==
  IF input = Null \/ Len(input) = 0 \/ Len(input) # 2
    THEN [isValid |-> FALSE, error |-> LengthError]
    ELSE LET row == parseInt(input[1])
         IN IF isNaN(row) \/ row < 0 \/ row >= TenRows
              THEN [isValid |-> FALSE, error |-> RangeError]
              ELSE IF hasBeenGuessed(p.opponentBoard, input)
                THEN [isValid |-> FALSE, error |-> RepeatError]
                ELSE [isValid |-> TRUE, coordinate |-> input]

\* HumanPlayer.validateGuess; !input holds for null and for the empty string
validateGuess(p, input) ==
  IF input = Null \/ Len(input) = 0 \/ Len(input) # 2
    THEN [isValid |-> FALSE, error |-> LengthError]
    ELSE LET row == parseInt(input[1])
             col == parseInt(input[2])
         IN IF isNaN(row) \/ isNaN(col) \/ row < 0 \/ row >= TenRows
                 \/ col < 0 \/ col >= TenRows
              THEN [isValid |-> FALSE, error |-> RangeError]
              ELSE IF hasBeenGuessed(p.opponentBoard, input)
                THEN [isValid |-> FALSE, error |-> RepeatError]
                ELSE [isValid |-> TRUE, coordinate |-> input]

\* the locations one attempt of placeShipsRandomly can try when
\* getRandomStartPosition yields a start position of starts
tryLocations(b, shipLength, starts) ==
  {generateShipLocations(st[1], st[2], shipLength, orientation) :
     <<orientation, st>> \in
       {<<o, t>> \in Orientations \X starts : t \in getRandomStartPosition(b, shipLength, o)}}

\* Board.placeShipsRandomly with placedShips ships placed so far: the
\* results of its runs.  Each successful attempt places a ship; the run
\* ends with numShips ships placed, or throws after maxAttempts attempts,
\* which the attempts that fail can fill, or throws what canPlaceShip throws.
\* Every placed ship has taken an attempt, so with maxAttempts ships placed
\* and more to place the attempts are used up
RECURSIVE placeRuns(_, _, _, _, _)
placeRuns(b, placedShips, numShips, shipLength, starts) ==
  IF ~(placedShips < numShips) THEN {[threw |-> None, board |-> b]}
  ELSE IF ~(placedShips < maxAttempts)
    THEN {[threw |-> Exhausted, board |-> b]}
  ELSE LET tries == tryLocations(b, shipLength, starts)
           fits == {l \in tries : canPlaceShip(b, l).threw = None /\ canPlaceShip(b, l).ret}
           fails == {l \in tries : canPlaceShip(b, l).threw = None /\ ~canPlaceShip(b, l).ret}
       IN UNION {placeRuns(placeShip(b, l).board, placedShips + 1, numShips,
                           shipLength, starts) : l \in fits}
            \cup (IF fails # {} THEN {[threw |-> Exhausted, board |-> b]} ELSE {})
            \cup {[threw |-> canPlaceShip(b, l).threw, board |-> b] :
                    l \in {t \in tries : canPlaceShip(b, t).threw # None}}

placeShipsRandomly(b, numShips, shipLength, starts) ==
  placeRuns(b, 0, numShips, shipLength, starts)

\* Player.setupBoard
setupBoard(p, numShips, shipLength, starts) ==
  {[threw |-> r.threw, player |-> [p EXCEPT !.board = r.board]] :
     r \in placeShipsRandomly(p.board, numShips, shipLength, starts)}

\* the Game object after new Game(options); the readline interface is open
Game(options) ==
  [boardSize |-> orElse(options.boardSize, 10),
   numShips |-> orElse(options.numShips, 3),
   shipLength |-> orElse(options.shipLength, 3),
   gameOver |-> FALSE, rlClosed |-> FALSE]

checkGameOver_never(h, c) == FALSE

\* Game.checkGameOver: the value returned; gameOver is set when it is true
checkGameOver(h, c) == isDefeated(c) \/ isDefeated(h)

handlePlayerTurn_notrack(h, c, input) ==
  LET validation == validateGuess(h, trim(input))
  IN IF ~validation.isValid
       THEN [human |-> h, cpu |-> c, validation |-> validation, ret |-> FALSE]
       ELSE LET result == receiveGuess(c, validation.coordinate)
            IN [human |-> h, cpu |-> result.board, validation |-> validation,
                result |-> result.ret, ret |-> TRUE]

\* the callback of Game.handlePlayerTurn on the line input
handlePlayerTurn(h, c, input) ==
  LET validation == validateGuess(h, trim(input))
  IN IF ~validation.isValid
       THEN [human |-> h, cpu |-> c, validation |-> validation, ret |-> FALSE]
       ELSE LET result == receiveGuess(c, validation.coordinate)
                track == processGuess(h.opponentBoard, validation.coordinate)
            IN [human |-> [h EXCEPT !.opponentBoard = track.board],
                cpu |-> result.board, validation |-> validation,
                result |-> result.ret, ret |-> TRUE]

handleCPUTurn_track(h, c, hg) ==
  LET g == generateGuess(c, hg)
      result == receiveGuess(h, g.ret)
      after == processGuessResult(g.cpu, g.ret, result.ret)
  IN [human |-> [result.board EXCEPT
                   !.opponentBoard = processGuess(@, g.ret).board],
      cpu |-> after.cpu, cpuGuess |-> g.ret, result |-> result.ret]

handleCPUTurn_noresult(h, c, hg) ==
  LET g == generateGuess(c, hg)
      result == receiveGuess(h, g.ret)
      after == processGuessResult(g.cpu, g.ret, Miss)
  IN [human |-> result.board, cpu |-> after.cpu, cpuGuess |-> g.ret,
      result |-> result.ret]

\* Game.handleCPUTurn; hg is what generateHuntGuess returns if called
handleCPUTurn(h, c, hg) ==
  LET g == generateGuess(c, hg)
      result == receiveGuess(h, g.ret)
      after == processGuessResult(g.cpu, g.ret, result.ret)
  IN [human |-> result.board, cpu |-> after.cpu, cpuGuess |-> g.ret,
      result |-> result.ret]

-----------------------------------------------------------------------------
(* The game as it runs: startGame sets up the boards and enters gameLoop,  *)
(* which is followed from one await or call to the next                    *)

\* the options the game is constructed with
OptionPool ==
  { [boardSize |-> Undefined, numShips |-> 1, shipLength |-> 2],
    [boardSize |-> 5, numShips |-> 2, shipLength |-> 1],
    [boardSize |-> Undefined, numShips |-> 1, shipLength |-> -1] }

\* the start positions getRandomStartPosition yields in the games explored
GameStarts == { <<0, 0>>, <<0, 1>> }

\* the coordinates Math.random yields in generateHuntGuess
GameSamples == { <<"0","0">>, <<"1","1">> }

\* the lines the human types
HumanInputs ==
  { <<"0","0">>, <<"0","1">>, <<"1","0">>, <<" ","0","2"," ">>, <<"1","1","\r">>,
    <<>>, <<" ">>, <<"0">>, <<"0","1","2">>, <<"0","A">>, <<"-","1">> }

InitGame ==
  /\ shipObj = Idle
  /\ game \in {Game(options) : options \in OptionPool}
  /\ human = HumanPlayer
  /\ cpu = CPUPlayer
  /\ frame = [pc |-> "new", playerMadeValidMove |-> FALSE]
  /\ last = [op |-> "new"]
  /\ ghost = [rounds |-> 0, exit |-> "none"]
  /\ board = Idle /\ hunt = Idle

GStartGame_swallow ==
  /\ frame.pc = "new"
  /\ \E h \in setupBoard(human, game.numShips, game.shipLength, GameStarts) :
       \E c \in setupBoard(cpu, game.numShips, game.shipLength, GameStarts) :
          /\ human' = h.player
          /\ cpu' = c.player
          /\ game' = game
          /\ frame' = [frame EXCEPT !.pc = "loopTop"]
          /\ last' = [op |-> "startGame",
                      threw |-> IF h.threw # None THEN h.threw ELSE c.threw]
  /\ UNCHANGED <<board, hunt, ghost, shipObj>>

\* startGame up to the first iteration of gameLoop: setupPlayers sets up
\* the human's board, then the CPU's; a throw is reported and the
\* interface closed
GStartGame ==
  /\ frame.pc = "new"
  /\ \E h \in setupBoard(human, game.numShips, game.shipLength, GameStarts) :
        IF h.threw # None
          THEN /\ human' = h.player
               /\ cpu' = cpu
               /\ game' = [game EXCEPT !.rlClosed = TRUE]
               /\ frame' = [frame EXCEPT !.pc = "closed"]
               /\ last' = [op |-> "startGame", threw |-> h.threw]
          ELSE \E c \in setupBoard(cpu, game.numShips, game.shipLength, GameStarts) :
                 /\ human' = h.player
                 /\ cpu' = c.player
                 /\ game' = [game EXCEPT !.rlClosed = @ \/ (c.threw # None)]
                 /\ frame' = [frame EXCEPT
                                !.pc = IF c.threw # None THEN "closed" ELSE "loopTop"]
                 /\ last' = [op |-> "startGame", threw |-> c.threw]
  /\ UNCHANGED <<board, hunt, ghost, shipObj>>

\* the loop condition and the check at the top of the loop body;
\* ghost.exit tells how the loop has ended: with its condition, "flag", or
\* with a break after checkGameOver, "check"
GLoopTop ==
  /\ frame.pc = "loopTop"
  /\ IF game.gameOver
       THEN /\ game' = game
            /\ frame' = [frame EXCEPT !.pc = "endGame"]
            /\ ghost' = [ghost EXCEPT !.exit = "flag"]
       ELSE IF checkGameOver(human, cpu)
         THEN /\ game' = [game EXCEPT !.gameOver = TRUE]
              /\ frame' = [frame EXCEPT !.pc = "endGame"]
              /\ ghost' = [ghost EXCEPT !.exit = "check"]
         ELSE /\ game' = game
              /\ frame' = [frame EXCEPT !.pc = "prompt"]
              /\ ghost' = ghost
  /\ last' = [op |-> "gameLoop", at |-> "top"]
  /\ UNCHANGED <<board, human, cpu, hunt, shipObj>>

\* handlePlayerTurn: the human answers the prompt.  A readline interface
\* that is closed reads no line, and the question stays unanswered
GHandlePlayerTurn ==
  \E input \in HumanInputs :
     LET r == handlePlayerTurn(human, cpu, input)
     IN /\ frame.pc = "prompt"
        /\ ~game.rlClosed
        /\ r.ret => ghost.rounds < MaxRounds
        /\ human' = r.human
        /\ cpu' = r.cpu
        /\ frame' = [pc |-> "resolved", playerMadeValidMove |-> r.ret]
        /\ last' = IF r.ret
                      THEN [op |-> "handlePlayerTurn", input |-> input,
                            validation |-> r.validation, result |-> r.result]
                      ELSE [op |-> "handlePlayerTurn", input |-> input,
                            validation |-> r.validation]
        /\ ghost' = IF r.ret THEN [ghost EXCEPT !.rounds = @ + 1] ELSE ghost
        /\ UNCHANGED <<board, game, hunt, shipObj>>

GResume_cputurn ==
  /\ frame.pc = "resolved"
  /\ IF checkGameOver(human, cpu)
       THEN /\ game' = [game EXCEPT !.gameOver = TRUE]
            /\ frame' = [frame EXCEPT !.pc = "endGame"]
            /\ ghost' = [ghost EXCEPT !.exit = "check"]
       ELSE /\ game' = game
            /\ frame' = [frame EXCEPT !.pc = "cpuTurn"]
            /\ ghost' = ghost
  /\ last' = [op |-> "gameLoop", at |-> "resumed"]
  /\ UNCHANGED <<board, human, cpu, hunt, shipObj>>

GResume_nocheck ==
  /\ frame.pc = "resolved"
  /\ game' = game
  /\ frame' = [frame EXCEPT
                 !.pc = IF ~frame.playerMadeValidMove THEN "loopTop" ELSE "cpuTurn"]
  /\ last' = [op |-> "gameLoop", at |-> "resumed"]
  /\ UNCHANGED <<board, human, cpu, hunt, ghost, shipObj>>

\* gameLoop after the await: continue on an invalid move, else the check
\* whether the player has won
GResume ==
  /\ frame.pc = "resolved"
  /\ IF ~frame.playerMadeValidMove
       THEN /\ game' = game
            /\ frame' = [frame EXCEPT !.pc = "loopTop"]
            /\ ghost' = ghost
       ELSE IF checkGameOver(human, cpu)
         THEN /\ game' = [game EXCEPT !.gameOver = TRUE]
              /\ frame' = [frame EXCEPT !.pc = "endGame"]
              /\ ghost' = [ghost EXCEPT !.exit = "check"]
         ELSE /\ game' = game
              /\ frame' = [frame EXCEPT !.pc = "cpuTurn"]
              /\ ghost' = ghost
  /\ last' = [op |-> "gameLoop", at |-> "resumed"]
  /\ UNCHANGED <<board, human, cpu, hunt, shipObj>>

\* handleCPUTurn, then back to the loop condition
GHandleCPUTurn ==
  \E hg \in generateHuntGuess(cpu, GameSamples) :
     LET r == handleCPUTurn(human, cpu, hg)
     IN /\ frame.pc = "cpuTurn"
        /\ human' = r.human
        /\ cpu' = r.cpu
        /\ frame' = [frame EXCEPT !.pc = "loopTop"]
        /\ last' = [op |-> "handleCPUTurn", cpuGuess |-> r.cpuGuess,
                     result |-> r.result]
        /\ UNCHANGED <<board, game, hunt, ghost, shipObj>>

\* endGame, with which gameLoop returns: the result is shown and the
\* readline interface is left as it is
GEndGame ==
  /\ frame.pc = "endGame"
  /\ game' = game
  /\ frame' = [frame EXCEPT !.pc = "ended"]
  /\ last' = [op |-> "endGame", playerWon |-> isDefeated(cpu)]
  /\ UNCHANGED <<board, human, cpu, hunt, ghost, shipObj>>

\* startGame after await this.gameLoop(): the finally clause closes the
\* readline interface, in a later turn of the event loop than endGame
GFinally ==
  /\ frame.pc = "ended"
  /\ game' = [game EXCEPT !.rlClosed = TRUE]
  /\ frame' = [frame EXCEPT !.pc = "closed"]
  /\ UNCHANGED <<board, last, human, cpu, hunt, ghost, shipObj>>

\* forceEnd, called while no code of the game is running: before
\* startGame, while the prompt waits, between the answer and the loop's
\* resumption, between endGame and the finally clause, or afterwards
GForceEnd ==
  /\ frame.pc \in {"new", "prompt", "resolved", "ended", "closed"}
  /\ game' = [game EXCEPT !.gameOver = TRUE, !.rlClosed = TRUE]
  /\ last' = [op |-> "forceEnd"]
  /\ UNCHANGED <<board, frame, human, cpu, hunt, ghost, shipObj>>

NextGame ==
  \/ GStartGame \/ GLoopTop \/ GHandlePlayerTurn \/ GResume \/ GHandleCPUTurn
  \/ GEndGame \/ GFinally \/ GForceEnd

SpecGame == InitGame /\ [][NextGame]_vars

-----------------------------------------------------------------------------
(* Properties of the game loop *)

Defeated == isDefeated(cpu) \/ isDefeated(human)

\* C4: once the board of the human or of the CPU is all sunk, no step of
\* the game changes a board or a tracking board, the next step of the loop
\* is the check that ends it, endGame itself or the closing of the
\* interface, and the game is never at the prompt or at the CPU's turn: a
\* human guess that sinks the last CPU ship gets no reply, and after a CPU
\* guess that sinks the last human ship the human is not prompted.  A call
\* of forceEnd leaves the loop where it is.
C4_EndAfterAllSunk ==
  /\ [](frame.pc \in {"prompt", "cpuTurn"} => ~Defeated)
  /\ [][Defeated
          => /\ human'.board = human.board
             /\ human'.opponentBoard = human.opponentBoard
             /\ cpu'.board = cpu.board
             /\ cpu'.opponentBoard = cpu.opponentBoard
             /\ \/ frame'.pc \in {"endGame", "ended", "closed"}
                \/ frame' = frame /\ last'.op = "forceEnd"
             /\ last'.op \in {"gameLoop", "endGame", "forceEnd"}]_vars

\* the human sank the only CPU ship, of two cells, with a guess the CPU
\* did not answer, and the game has ended
C4_Witness ==
  /\ frame.pc = "closed" /\ last.op = "endGame" /\ last.playerWon
  /\ game.gameOver
  /\ Len(cpu.board.ships) = 1 /\ Len(cpu.board.ships[1].locations) = 2
  /\ isDefeated(cpu) /\ ~isDefeated(human)
  /\ Cardinality(cpu.board.guesses) = Cardinality(human.board.guesses) + 1

\* the CPU sank the only human ship, of two cells, and the game has ended
\* without another prompt
C4_WitnessHumanLost ==
  /\ frame.pc = "closed" /\ last.op = "endGame" /\ ~last.playerWon
  /\ game.gameOver
  /\ Len(human.board.ships) = 1 /\ Len(human.board.ships[1].locations) = 2
  /\ isDefeated(human) /\ ~isDefeated(cpu)
  /\ Cardinality(cpu.board.guesses) = Cardinality(human.board.guesses)

\* both fleets are sunk as soon as they are placed: ships of no cells
C4_WitnessEmptyShips ==
  /\ frame.pc = "endGame" /\ isDefeated(human) /\ isDefeated(cpu)
  /\ human.board.guesses = {} /\ cpu.board.guesses = {}

\* the inputs the human player's validation is to reject: after trimming,
\* not two characters, a character that is no digit, or a coordinate
\* already in the guessed-set of the tracking board
Rejectable(h, input) ==
  LET t == trim(input)
  IN \/ Len(t) # 2
     \/ \E i \in 1..Len(t) : t[i] \notin Range(DigitChars)
     \/ t \in h.opponentBoard.guesses

\* C5: a turn whose input is of wrong length, has a non-digit, or repeats a
\* guess is rejected and changes neither player nor the game object; the
\* loop then continues to its top and from there, in a game that forceEnd
\* has not ended meanwhile, to the prompt, and the CPU's turn is not taken
\* on the way.
C5_RejectedInputNoAdvance ==
  [][/\ (frame.pc = "prompt" /\ last'.op = "handlePlayerTurn"
           /\ Rejectable(human, last'.input))
          => /\ human' = human /\ cpu' = cpu /\ game' = game
             /\ frame'.pc = "resolved" /\ ~frame'.playerMadeValidMove
             /\ ~last'.validation.isValid
     /\ (frame.pc = "resolved" /\ ~frame.playerMadeValidMove)
          => /\ human' = human /\ cpu' = cpu
             /\ IF last'.op = "forceEnd"
                  THEN frame' = frame
                  ELSE game' = game /\ frame'.pc = "loopTop"
     /\ (frame.pc = "loopTop" /\ ~frame.playerMadeValidMove
           /\ last.op = "gameLoop" /\ last.at = "resumed")
          => /\ human' = human /\ cpu' = cpu /\ game' = game
             /\ frame'.pc = (IF game.gameOver THEN "endGame" ELSE "prompt")]_vars

\* a repeated guess has been rejected while the CPU is in target mode
C5_Witness ==
  /\ frame.pc = "resolved" /\ ~frame.playerMadeValidMove
  /\ last.op = "handlePlayerTurn"
  /\ last.validation.error = RepeatError
  /\ trim(last.input) \in human.opponentBoard.guesses
  /\ cpu.mode = "target" /\ Len(cpu.targetQueue) > 0

\* an input of the wrong length has been rejected
C5_WitnessLength ==
  /\ frame.pc = "resolved" /\ ~frame.playerMadeValidMove
  /\ last.op = "handlePlayerTurn"
  /\ last.validation.error = LengthError /\ Len(last.input) = 3
  /\ ghost.rounds > 0

\* an input with a character that is no digit has been rejected
C5_WitnessRange ==
  /\ frame.pc = "resolved" /\ ~frame.playerMadeValidMove
  /\ last.op = "handlePlayerTurn"
  /\ last.validation.error = RangeError /\ last.input = <<"-","1">>
  /\ ghost.rounds > 0

\* the human is prompted again after a rejected input
C5_WitnessReprompt ==
  /\ frame.pc = "prompt" /\ ~frame.playerMadeValidMove /\ ghost.rounds > 0

\* the marker of the cell of coordinate c on board b
cellAt(b, c) == b.grid[<<parseInt(c[1]), parseInt(c[2])>>]

\* a human guess has been accepted and resolved
AcceptedTurn ==
  frame.pc = "resolved" /\ frame.playerMadeValidMove /\ last.op = "handlePlayerTurn"

\* C12: after an accepted human guess at c, the cell c of the human's
\* tracking board is 'X' if the guess hit a CPU ship and 'O' if it missed.
C12_TrackingShowsResult ==
  AcceptedTurn
    => cellAt(human.opponentBoard, last.validation.coordinate)
         = (IF last.result.hit THEN "X" ELSE "O")

\* C13: in a game, the CPU's tracking board and the human's own board have
\* the same guessed coordinates; each of them carries the same marker on
\* both, 'X' or 'O', and every other cell of the tracking board is water.
C13_CpuTrackingMirrorsBoard ==
  /\ cpu.opponentBoard.guesses = human.board.guesses
  /\ \A c \in Cells :
        IF c \in cpu.opponentBoard.guesses
          THEN /\ cellAt(cpu.opponentBoard, c) = cellAt(human.board, c)
               /\ cellAt(cpu.opponentBoard, c) \in {"X", "O"}
          ELSE cellAt(cpu.opponentBoard, c) = "~"

\* the CPU's turn has just hit a human ship after an earlier miss, and the
\* tracking board shows both
C13_Witness ==
  /\ last.op = "handleCPUTurn" /\ last.result.hit
  /\ cellAt(cpu.opponentBoard, last.cpuGuess) = "X"
  /\ cellAt(human.board, last.cpuGuess) = "X"
  /\ \E c \in cpu.opponentBoard.guesses : cellAt(cpu.opponentBoard, c) = "O"

-----------------------------------------------------------------------------
(* The stand-alone HumanPlayer: a client that calls validateGuess and      *)
(* records guesses on the tracking board, as the game does                 *)

\* most coordinates recorded on the stand-alone tracking board
MaxTracked == 3

\* the inputs handed to validateGuess
ValidatePool ==
  { <<>>, Null, <<"3">>, <<"3","4","5">>, <<"A","B">>, <<"0","0">>, <<"9","9">>,
    <<"3","4">>, <<"0","A">>, <<"A","0">>, <<"-","1">>, <<"1",".">> }

\* the coordinates handed to processGuess of the tracking board
TrackPool == { <<"0","0">>, <<"9","9">>, <<"3","4">>, <<"A","B">>, <<"0","A">> }

InitValidate ==
  /\ shipObj = Idle
  /\ human = HumanPlayer
  /\ last = [op |-> "new"]
  /\ board = Idle /\ frame = Idle /\ cpu = Idle /\ game = Idle /\ hunt = Idle
  /\ ghost = Idle

VValidateGuess ==
  \E input \in ValidatePool :
     /\ last' = [op |-> "validateGuess", input |-> input,
                  ret |-> validateGuess(human, input)]
     /\ UNCHANGED <<board, frame, cpu, human, game, hunt, ghost, shipObj>>

\* getOpponentBoard().processGuess(coordinate)
VTrackGuess ==
  \E coordinate \in TrackPool :
     LET r == processGuess(human.opponentBoard, coordinate)
     IN /\ coordinate \in human.opponentBoard.guesses
             \/ Cardinality(human.opponentBoard.guesses) < MaxTracked
        /\ human' = [human EXCEPT !.opponentBoard = r.board]
        /\ last' = [op |-> "processGuess", arg |-> coordinate, threw |-> r.threw]
        /\ UNCHANGED <<board, frame, cpu, game, hunt, ghost, shipObj>>

NextValidate == VValidateGuess \/ VTrackGuess

SpecValidate == InitValidate /\ [][NextValidate]_vars

\* what validateGuess is to return for input on tracking guessed-set G: the
\* first reason that applies, in the order length, digits, repeat
Verdict(G, input) ==
  IF input = Null \/ Len(input) # 2
    THEN [isValid |-> FALSE, error |-> LengthError]
  ELSE IF \E i \in 1..2 : input[i] \notin Range(DigitChars)
    THEN [isValid |-> FALSE, error |-> RangeError]
  ELSE IF input \in G
    THEN [isValid |-> FALSE, error |-> RepeatError]
  ELSE [isValid |-> TRUE, coordinate |-> input]

\* C14: validateGuess accepts exactly the inputs of two decimal digits that
\* are not in the tracking guessed-set, returning the input as coordinate,
\* and rejects the others with the first reason that applies: length, then
\* digits, then repeat; with nothing guessed it rejects "", "3", "345" and
\* "AB" and accepts "00" and "99"; it changes no state.
C14_ValidateGuess ==
  /\ [](last.op = "validateGuess"
          => /\ last.ret = Verdict(human.opponentBoard.guesses, last.input)
             /\ (human.opponentBoard.guesses = {}
                   /\ last.input \in {<<>>, <<"3">>, <<"3","4","5">>, <<"A","B">>})
                  => ~last.ret.isValid
             /\ (human.opponentBoard.guesses = {}
                   /\ last.input \in {<<"0","0">>, <<"9","9">>})
                  => last.ret = [isValid |-> TRUE, coordinate |-> last.input])
  /\ [][last'.op = "validateGuess" => human' = human]_vars

\* "AB" was recorded on the tracking board and is rejected for its digits,
\* not as a repeat
C14_Witness ==
  /\ last.op = "validateGuess" /\ last.input = <<"A","B">>
  /\ <<"A","B">> \in human.opponentBoard.guesses
  /\ last.ret.error = RangeError

\* a guessed coordinate is rejected as a repeat
C14_WitnessRepeat ==
  /\ last.op = "validateGuess" /\ last.input = <<"3","4">>
  /\ last.ret = [isValid |-> FALSE, error |-> RepeatError]

\* "99" is accepted with nothing guessed
C14_WitnessAccept ==
  /\ last.op = "validateGuess" /\ last.input = <<"9","9">>
  /\ human.opponentBoard.guesses = {}
  /\ last.ret = [isValid |-> TRUE, coordinate |-> <<"9","9">>]

-----------------------------------------------------------------------------
(* The stand-alone Board with its queries: the client of SpecBoard also    *)
(* calls canPlaceShip, allShipsSunk and getRemainingShipsCount             *)

\* locations handed to canPlaceShip: cells of the board, cells outside it,
\* a string with a character that is no digit, no location at all
CanPlacePool ==
  { <<>>,
    << <<"0","0">> >>,
    << <<"0","1">>, <<"1","1">> >>,
    << <<"2","1">>, <<"2","2">> >>,
    << <<"2","2">>, <<"2","3">> >>,
    << <<"2","A">> >>,
    << <<"0","2">>, <<"1","2">>, <<"2","2">> >> }

\* ship footprints and coordinates of the client's calls
QueryShips ==
  { <<>>, << <<"0","0">> >>, << <<"0","1">>, <<"1","1">> >> }

QueryGuesses == { <<"0","0">>, <<"0","1">>, <<"1","1">>, <<"2","2">> }

QPlaceShip ==
  \E locations \in QueryShips :
     /\ Len(board.ships) < MaxShips
     /\ LET r == placeShip(board, locations)
        IN /\ board' = r.board
           /\ last' = [op |-> "placeShip", arg |-> locations, threw |-> r.threw]
     /\ UNCHANGED <<frame, cpu, human, game, hunt, ghost, shipObj>>

QProcessGuess ==
  \E coordinate \in QueryGuesses :
     /\ coordinate \in board.guesses \/ Cardinality(board.guesses) < MaxGuesses
     /\ LET r == processGuess(board, coordinate)
        IN /\ board' = r.board
           /\ last' = [op |-> "processGuess", arg |-> coordinate,
                        threw |-> r.threw, ret |-> r.ret]
     /\ UNCHANGED <<frame, cpu, human, game, hunt, ghost, shipObj>>

QCanPlaceShip ==
  \E locations \in CanPlacePool :
     LET r == canPlaceShip(board, locations)
     IN /\ last' = [op |-> "canPlaceShip", arg |-> locations, threw |-> r.threw,
                     ret |-> r.ret]
        /\ UNCHANGED <<board, frame, cpu, human, game, hunt, ghost, shipObj>>

QAllShipsSunk ==
  /\ last' = [op |-> "allShipsSunk", ret |-> allShipsSunk(board)]
  /\ UNCHANGED <<board, frame, cpu, human, game, hunt, ghost, shipObj>>

QGetRemainingShipsCount ==
  /\ last' = [op |-> "getRemainingShipsCount", ret |-> getRemainingShipsCount(board)]
  /\ UNCHANGED <<board, frame, cpu, human, game, hunt, ghost, shipObj>>

NextQuery ==
  QPlaceShip \/ QProcessGuess \/ QCanPlaceShip \/ QAllShipsSunk
    \/ QGetRemainingShipsCount

SpecQuery == InitBoard /\ [][NextQuery]_vars

\* the two-character location names a cell of board b: both characters are
\* digits below the size of the board
OnBoard(b, location) ==
  \A i \in 1..2 : \E d \in 0..(b.size - 1) : location[i] = DigitChars[d + 1]

\* C18: canPlaceShip(locations), for locations of two characters each,
\* returns true exactly when every location is in bounds and its cell is
\* water, hence false when a location is out of bounds or its cell carries
\* a ship, a hit or a miss; the call leaves the board as it was.
C18_CanPlaceShip ==
  /\ [](last.op = "canPlaceShip"
          => /\ last.threw = None
             /\ last.ret = (\A i \in 1..Len(last.arg) :
                               /\ OnBoard(board, last.arg[i])
                               /\ cellAt(board, last.arg[i]) = "~"))
  /\ [][last'.op = "canPlaceShip" => board' = board]_vars

\* canPlaceShip has returned false for in-bounds cells of which one carries
\* a ship and one the marker of a hit
C18_Witness ==
  /\ last.op = "canPlaceShip" /\ ~last.ret
  /\ \A i \in 1..Len(last.arg) : OnBoard(board, last.arg[i])
  /\ \E i \in 1..Len(last.arg) : cellAt(board, last.arg[i]) = "X"
  /\ \E i \in 1..Len(last.arg) : cellAt(board, last.arg[i]) = "S"

\* false for a miss marker, for a ship, for a cell out of bounds
C18_WitnessMiss ==
  /\ last.op = "canPlaceShip" /\ ~last.ret
  /\ last.arg = << <<"2","1">>, <<"2","2">> >> /\ cellAt(board, <<"2","2">>) = "O"

C18_WitnessOutside ==
  /\ last.op = "canPlaceShip" /\ ~last.ret
  /\ last.arg = << <<"2","2">>, <<"2","3">> >> /\ cellAt(board, <<"2","2">>) = "~"

\* true for three water cells on a board with a ship and a guess
C18_WitnessTrue ==
  /\ last.op = "canPlaceShip" /\ last.ret /\ Len(last.arg) = 3
  /\ board.ships # <<>> /\ board.guesses # {}

\* C19: allShipsSunk() returns true exactly when the board has a ship and
\* every location of every ship is marked hit; on a board without ships it
\* returns false, whatever was guessed.
C19_AllShipsSunk ==
  last.op = "allShipsSunk"
    => /\ last.ret = (/\ board.ships # <<>>
                      /\ \A k \in 1..Len(board.ships) :
                            \A i \in 1..Len(board.ships[k].locations) :
                               board.ships[k].hits[i])
       /\ board.ships = <<>> => ~last.ret

\* no ships, three guesses made: not defeated
C19_Witness ==
  /\ last.op = "allShipsSunk" /\ ~last.ret
  /\ board.ships = <<>> /\ Cardinality(board.guesses) = 3

\* two ships, both sunk by guesses: defeated
C19_WitnessSunk ==
  /\ last.op = "allShipsSunk" /\ last.ret
  /\ Len(board.ships) = 2
  /\ \A k \in 1..2 : Len(board.ships[k].locations) > 0

\* the ships of board b that have a location not marked hit
Unsunk(b) ==
  {k \in 1..Len(b.ships) :
     \E i \in 1..Len(b.ships[k].locations) : ~b.ships[k].hits[i]}

\* C20: getRemainingShipsCount() returns the number of ships that are not
\* sunk, 0 on a board without ships; a call of processGuess lowers the
\* count by one if it returns sunk = true and leaves it as it is otherwise.
C20_RemainingShipsCount ==
  /\ [](last.op = "getRemainingShipsCount"
          => /\ last.ret = Cardinality(Unsunk(board))
             /\ board.ships = <<>> => last.ret = 0)
  /\ [][last'.op = "processGuess"
          => getRemainingShipsCount(board')
               = getRemainingShipsCount(board) - (IF last'.ret.sunk THEN 1 ELSE 0)]_vars

\* a guess has sunk the ship of two cells and one ship is left
C20_Witness ==
  /\ last.op = "processGuess" /\ last.ret.sunk /\ last.arg = <<"1","1">>
  /\ Len(board.ships) = 2
  /\ getRemainingShipsCount(board) = 1

\* the count was queried with one of two ships sunk
C20_WitnessQuery ==
  /\ last.op = "getRemainingShipsCount" /\ last.ret = 1
  /\ Len(board.ships) = 2 /\ Cardinality(Unsunk(board)) = 1
  /\ board.guesses # {}

-----------------------------------------------------------------------------
(* The stand-alone Ship: a client that constructs a ship and calls hit and *)
(* isSunk                                                                  *)

\* the longest ship constructed
MaxShipLen == 3

\* cells of one row, from which the ships are cut
RowCells ==
  << <<"0","0">>, <<"0","1">>, <<"0","2">>, <<"0","3">>, <<"0","4">>, <<"0","5">> >>

\* the locations handed to the constructor: lines of 0..MaxShipLen cells,
\* and a sequence that lists one coordinate twice
ShipLocations ==
  {SubSeq(RowCells, 1, n) : n \in 0..MaxShipLen}
    \cup { << <<"0","0">>, <<"0","0">> >> }

\* the locations handed to hit: cells of the row, a cell elsewhere, a string
\* that is no coordinate
HitPool == Range(RowCells) \cup { <<"5","5">>, <<"A">> }

InitShip ==
  /\ shipObj \in {Ship(locations) : locations \in ShipLocations}
  /\ last = [op |-> "new"]
  /\ board = Idle /\ frame = Idle /\ cpu = Idle /\ human = Idle /\ game = Idle
  /\ hunt = Idle /\ ghost = Idle

SHit ==
  \E location \in HitPool :
     LET r == hit(shipObj, location)
     IN /\ shipObj' = r.ship
        /\ last' = [op |-> "hit", arg |-> location, ret |-> r.ret]
        /\ UNCHANGED <<board, frame, cpu, human, game, hunt, ghost>>

SIsSunk ==
  /\ last' = [op |-> "isSunk", ret |-> isSunk(shipObj)]
  /\ UNCHANGED <<board, frame, cpu, human, game, hunt, ghost, shipObj>>

NextShip == SHit \/ SIsSunk

SpecShip == InitShip /\ [][NextShip]_vars

\* the flag of the ship's cell at location: that of the first position
\* where the ship lists location
FlagOf(s, location) ==
  s.hits[CHOOSE i \in 1..Len(s.locations) :
           s.locations[i] = location /\ \A j \in 1..(i - 1) : s.locations[j] # location]

\* C21: hit(location) returns true and sets the flag of the cell exactly
\* when location is a cell of the ship whose flag is not set; otherwise it
\* returns false and leaves every flag as it was.  No call changes the
\* locations of the ship.
C21_HitMarksOnce ==
  /\ [][last'.op = "hit"
          => IF last'.arg \in Range(shipObj.locations) /\ ~FlagOf(shipObj, last'.arg)
               THEN /\ last'.ret
                    /\ FlagOf(shipObj', last'.arg)
                    /\ \A i \in 1..Len(shipObj.hits) :
                          shipObj.locations[i] # last'.arg
                            => shipObj'.hits[i] = shipObj.hits[i]
               ELSE /\ ~last'.ret
                    /\ shipObj'.hits = shipObj.hits]_vars
  /\ [][shipObj'.locations = shipObj.locations]_vars

\* the second hit of the same cell of a three-cell ship has returned false
C21_Witness ==
  /\ last.op = "hit" /\ ~last.ret
  /\ Len(shipObj.locations) = 3
  /\ last.arg \in Range(shipObj.locations) /\ FlagOf(shipObj, last.arg)
  /\ Cardinality({i \in 1..3 : shipObj.hits[i]}) = 1

\* a first hit has returned true
C21_WitnessHit ==
  /\ last.op = "hit" /\ last.ret
  /\ Len(shipObj.locations) = 3 /\ last.arg = <<"0","1">>
  /\ shipObj.hits = <<FALSE, TRUE, FALSE>>

\* the number of flags of ship s that are set
HitCount(s) == Cardinality({i \in 1..Len(s.hits) : s.hits[i]})

\* C22: isSunk() returns true exactly when as many flags are set as the
\* ship has cells: with all N cells hit the ship is sunk, with N - 1 hit it
\* is not, and a ship of no cells is sunk from its construction on.
C22_SunkIffAllHit ==
  last.op = "isSunk"
    => /\ last.ret = (HitCount(shipObj) = Len(shipObj.locations))
       /\ Len(shipObj.locations) = 0 => last.ret
       /\ (Len(shipObj.locations) >= 1
             /\ HitCount(shipObj) = Len(shipObj.locations) - 1) => ~last.ret

\* the longest ship with all cells but one hit is not sunk
C22_Witness ==
  /\ last.op = "isSunk" /\ ~last.ret
  /\ Len(shipObj.locations) = MaxShipLen
  /\ HitCount(shipObj) = MaxShipLen - 1

\* the longest ship with every cell hit is sunk
C22_WitnessSunk ==
  /\ last.op = "isSunk" /\ last.ret
  /\ Len(shipObj.locations) = MaxShipLen /\ HitCount(shipObj) = MaxShipLen

\* the ship of no cells is sunk
C22_WitnessEmpty ==
  /\ last.op = "isSunk" /\ last.ret /\ shipObj.locations = <<>>

-----------------------------------------------------------------------------
(* The Board of a game in its two phases: every ship is placed before the  *)
(* first guess, and every guess is a cell of the board                     *)

InitMarks == InitBoard

\* placeShip in the placement phase
MPlaceShip ==
  \E locations \in ShipPool :
     /\ board.guesses = {}
     /\ Len(board.ships) < MaxShips
     /\ InGrid(board, locations)
     /\ LET r == placeShip(board, locations)
        IN /\ board' = r.board
           /\ last' = [op |-> "placeShip", arg |-> locations, threw |-> r.threw]
     /\ UNCHANGED <<frame, cpu, human, game, hunt, ghost, shipObj>>

\* processGuess with a coordinate of the board
MProcessGuess ==
  \E coordinate \in GuessPool :
     /\ InGrid(board, <<coordinate>>)
     /\ coordinate \in board.guesses \/ Cardinality(board.guesses) < MaxGuesses
     /\ LET r == processGuess(board, coordinate)
        IN /\ board' = r.board
           /\ last' = [op |-> "processGuess", arg |-> coordinate,
                       threw |-> r.threw, ret |-> r.ret]
     /\ UNCHANGED <<frame, cpu, human, game, hunt, ghost, shipObj>>

NextMarks == MPlaceShip \/ MProcessGuess

SpecMarks == InitMarks /\ [][NextMarks]_vars

\* the coordinate string of the cell (row, col)
CoordOf(row, col) == ToStr(row) \o ToStr(col)

\* some ship of b lists the coordinate c
Occupied(b, c) == \E k \in 1..Len(b.ships) : c \in Range(b.ships[k].locations)

\* C23: on a board whose ships were placed before the first guess and whose
\* guesses are cells of the board, every cell shows X exactly when it is
\* guessed and occupied, O exactly when guessed and unoccupied, S exactly
\* when unguessed and occupied, ~ exactly when unguessed and unoccupied.
C23_MarkersMatchState ==
  \A row, col \in 0..(board.size - 1) :
     LET c == CoordOf(row, col)
         m == board.grid[<<row, col>>]
         g == c \in board.guesses
         o == Occupied(board, c)
     IN /\ (m = "X") <=> (g /\ o)
        /\ (m = "O") <=> (g /\ ~o)
        /\ (m = "S") <=> (~g /\ o)
        /\ (m = "~") <=> (~g /\ ~o)

\* the four markers are on the board at once, after a hit and a miss
C23_Witness ==
  /\ last.op = "processGuess"
  /\ Len(board.ships) = 2
  /\ board.grid[<<0, 0>>] = "X" /\ board.grid[<<0, 2>>] = "O"
  /\ board.grid[<<1, 1>>] = "S" /\ board.grid[<<2, 2>>] = "~"

\* C24: no operation removes a coordinate from the guessed-set of a board,
\* and a cell that shows X or O does not show S or ~ afterwards.
C24_GuessedCellsStay ==
  [][/\ board.guesses \subseteq board'.guesses
     /\ \A p \in DOMAIN board.grid :
           board.grid[p] \in {"X", "O"} => board'.grid[p] \notin {"S", "~"}]_vars

\* setupPlayers has thrown: a setupBoard call did not place its fleet
SetupFailed ==
  Len(human.board.ships) < game.numShips \/ Len(cpu.board.ships) < game.numShips

\* no guess has been resolved against any board of the game
NoGuessResolved ==
  /\ human.board.guesses = {} /\ human.opponentBoard.guesses = {}
  /\ cpu.board.guesses = {} /\ cpu.opponentBoard.guesses = {}

\* C25: when the placement of a fleet fails during setup, startGame ends
\* with the failure: the fleet that failed is left incomplete and the CPU's
\* is not started after a failure of the human's (no retry), the game loop
\* is not entered, and no guess is resolved against any board afterwards:
\* the one step left is a call of forceEnd, which changes no board.
C25_SetupFailureEndsGame ==
  /\ [](frame.pc # "new" /\ SetupFailed
          => /\ \/ last.op = "startGame" /\ last.threw # None
                \/ last.op = "forceEnd"
             /\ frame.pc = "closed" /\ game.rlClosed
             /\ Len(human.board.ships) < game.numShips => cpu.board.ships = <<>>
             /\ NoGuessResolved)
  /\ [](last.op = "startGame" /\ last.threw # None => SetupFailed /\ frame.pc = "closed")
  /\ [][frame.pc # "new" /\ SetupFailed
          => /\ last'.op = "forceEnd"
             /\ human' = human /\ cpu' = cpu /\ frame' = frame]_vars

\* the human's second ship could not be placed: one ship on the human's
\* board, none on the CPU's, the interface closed
C25_Witness ==
  /\ last.op = "startGame" /\ last.threw = Exhausted
  /\ game.numShips = 2 /\ Len(human.board.ships) = 1 /\ cpu.board.ships = <<>>
  /\ frame.pc = "closed"

\* the CPU's second ship could not be placed after the human's fleet was
C25_WitnessCpu ==
  /\ last.op = "startGame" /\ last.threw = Exhausted
  /\ Len(human.board.ships) = 2 /\ Len(cpu.board.ships) = 1
  /\ frame.pc = "closed"

\* the board b has size S: an S x S grid, every ship within it
HasSize(b, S) ==
  /\ b.size = S
  /\ DOMAIN b.grid = (0..(S - 1)) \X (0..(S - 1))
  /\ \A k \in 1..Len(b.ships) :
        \A i \in 1..Len(b.ships[k].locations) :
           LET l == b.ships[k].locations[i]
           IN Len(l) = 2 /\ parseInt(l[1]) \in 0..(S - 1) /\ parseInt(l[2]) \in 0..(S - 1)

\* C26: after a game is constructed with boardSize = S and set up, the own
\* board and the tracking board of each player have size S, and every ship
\* lies within [0, S) on both axes.
C26_BoardSizeGoverns ==
  last.op = "startGame" /\ last.threw = None
    => /\ HasSize(human.board, game.boardSize)
       /\ HasSize(human.opponentBoard, game.boardSize)
       /\ HasSize(cpu.board, game.boardSize)
       /\ HasSize(cpu.opponentBoard, game.boardSize)

\* C27: every ship that exists lists pairwise distinct coordinates, and is
\* sunk once each of its coordinates has been hit.
C27_ShipCoordinatesDistinct ==
  /\ \A i, j \in 1..Len(shipObj.locations) :
        i # j => shipObj.locations[i] # shipObj.locations[j]
  /\ (\A c \in Range(shipObj.locations) : FlagOf(shipObj, c)) => isSunk(shipObj)

-----------------------------------------------------------------------------
(* Coordinates on boards of several sizes: generateShipLocations writes    *)
(* the string of a cell, parseCoordinate reads it back                     *)

\* the sizes of the boards constructed
CoordSizes == {5, 10, 15}

InitCoord ==
  /\ shipObj = Idle
  /\ board \in {Board(s) : s \in CoordSizes}
  /\ last = [op |-> "new"]
  /\ frame = Idle /\ cpu = Idle /\ human = Idle /\ game = Idle /\ hunt = Idle
  /\ ghost = Idle

\* generateShipLocations for a ship of one cell at an in-bounds cell
CGenerateShipLocations ==
  \E row, col \in 0..(board.size - 1), orientation \in Orientations :
     /\ last' = [op |-> "generateShipLocations", row |-> row, col |-> col,
                 ret |-> generateShipLocations(row, col, 1, orientation)]
     /\ UNCHANGED <<board, frame, cpu, human, game, hunt, ghost, shipObj>>

\* parseCoordinate of the string generateShipLocations has returned
CParseCoordinate ==
  /\ last.op = "generateShipLocations"
  /\ LET pc == parseCoordinate(last.ret[1])
     IN last' = [op |-> "parseCoordinate", row |-> last.row, col |-> last.col,
                 arg |-> last.ret[1], ret |-> pc]
  /\ UNCHANGED <<board, frame, cpu, human, game, hunt, ghost, shipObj>>

NextCoord == CGenerateShipLocations \/ CParseCoordinate

SpecCoord == InitCoord /\ [][NextCoord]_vars

\* C28: on a board of any size, parseCoordinate applied to the string that
\* generateShipLocations emits for an in-bounds cell (row, col) returns
\* [row, col], and distinct in-bounds cells get distinct strings.
C28_CoordinateRoundTrip ==
  /\ last.op = "parseCoordinate"
       => last.ret.threw = None /\ last.ret.val = <<last.row, last.col>>
  /\ last.op = "generateShipLocations"
       => \A q \in (0..(board.size - 1)) \X (0..(board.size - 1)) :
             q # <<last.row, last.col>>
               => generateShipLocations(q[1], q[2], 1, "vertical") # last.ret

\* the locations of the ships of board b, ship by ship
Fleet(b) == [k \in 1..Len(b.ships) |-> b.ships[k].locations]

\* C29: handleCPUTurn resolves exactly one guess, a coordinate new to the
\* human's own board, and changes only that board and the CPU's tracking
\* board and AI state: the CPU's own board with its remaining-ship count
\* and the human's tracking board are as before, the human's fleet keeps
\* its cells, and the human's remaining-ship count does not increase.
C29_CpuTurnFrame ==
  [][last'.op = "handleCPUTurn"
       => /\ last'.cpuGuess \notin human.board.guesses
          /\ human'.board.guesses = human.board.guesses \cup {last'.cpuGuess}
          /\ cpu'.opponentBoard.guesses = cpu.opponentBoard.guesses \cup {last'.cpuGuess}
          /\ \A c \in Cells \ {last'.cpuGuess} :
                /\ cellAt(human'.board, c) = cellAt(human.board, c)
                /\ cellAt(cpu'.opponentBoard, c) = cellAt(cpu.opponentBoard, c)
          /\ Fleet(human'.board) = Fleet(human.board)
          /\ cpu'.board = cpu.board
          /\ getRemainingShips(cpu') = getRemainingShips(cpu)
          /\ human'.opponentBoard = human.opponentBoard
          /\ getRemainingShips(human') <= getRemainingShips(human)
          /\ game' = game]_vars

\* the CPU's turn has hit a human ship after the human had hit a CPU ship:
\* both own boards carry a hit, the CPU is targeting
C29_Witness ==
  /\ last.op = "handleCPUTurn" /\ last.result.hit
  /\ cpu.mode = "target"
  /\ \E c \in cpu.board.guesses : cellAt(cpu.board, c) = "X"
  /\ human.opponentBoard.guesses # {}

\* the CPU's turn has sunk a human ship: the human's count went down
C29_WitnessSunk ==
  /\ last.op = "handleCPUTurn" /\ last.result.sunk
  /\ getRemainingShips(human) < Len(human.board.ships)

-----------------------------------------------------------------------------
(* The CPU player with all its operations, called in any order: the two    *)
(* operations of the AI, and setupBoard and receiveGuess inherited from    *)
(* Player                                                                  *)

\* the coordinates handed to processGuessResult, each once as in a game: a
\* corner, its neighbours and the cell diagonal to it
OpsPool == { <<"0","0">>, <<"1","0">>, <<"0","1">>, <<"1","1">> }

\* the coordinates Math.random yields in generateHuntGuess
OpsSamples == { <<"0","0">>, <<"9","9">> }

\* the start position getRandomStartPosition yields in setupBoard
OpsStarts == { <<0, 0>> }

\* the coordinate the opponent guesses at the CPU's own board
ReceivePool == { <<"0","0">> }

OGenerateGuess ==
  \E h \in generateHuntGuess(cpu, OpsSamples) :
     LET r == generateGuess(cpu, h)
     IN /\ cpu' = r.cpu
        /\ last' = [op |-> "generateGuess", ret |-> r.ret, hunted |-> r.hunted,
                     pre |-> [mode |-> cpu.mode, targetQueue |-> cpu.targetQueue]]
        /\ UNCHANGED <<board, frame, human, game, hunt, ghost, shipObj>>

OProcessGuessResult ==
  \E coordinate \in OpsPool, result \in ResultPool :
     /\ coordinate \notin cpu.opponentBoard.guesses
     /\ Cardinality(cpu.opponentBoard.guesses) < MaxAIGuesses
     /\ LET r == processGuessResult(cpu, coordinate, result)
        IN /\ cpu' = r.cpu
           /\ last' = [op |-> "processGuessResult", arg |-> coordinate,
                        result |-> result]
     /\ UNCHANGED <<board, frame, human, game, hunt, ghost, shipObj>>

\* setupBoard(1, 2) on the CPU's board, once
OSetupBoard ==
  \E c \in setupBoard(cpu, 1, 2, OpsStarts) :
     /\ cpu.board.ships = <<>>
     /\ cpu' = c.player
     /\ last' = [op |-> "setupBoard", threw |-> c.threw]
     /\ UNCHANGED <<board, frame, human, game, hunt, ghost, shipObj>>

\* receiveGuess on the CPU's board
OReceiveGuess ==
  \E coordinate \in ReceivePool :
     LET r == receiveGuess(cpu, coordinate)
     IN /\ cpu' = r.board
        /\ last' = [op |-> "receiveGuess", arg |-> coordinate, ret |-> r.ret]
        /\ UNCHANGED <<board, frame, human, game, hunt, ghost, shipObj>>

\* addAdjacentTargets called by the client, once
OAddAdjacentTargets ==
  \E coordinate \in AdjacentPool :
     LET r == addAdjacentTargets(cpu, coordinate)
     IN /\ ~ghost.adjacent
        /\ cpu' = r.cpu
        /\ last' = [op |-> "addAdjacentTargets", arg |-> coordinate,
                     threw |-> r.threw]
        /\ ghost' = [ghost EXCEPT !.adjacent = TRUE]
        /\ UNCHANGED <<board, frame, human, game, hunt, shipObj>>

NextAIOps ==
  \/ OGenerateGuess \/ OProcessGuessResult \/ OSetupBoard \/ OReceiveGuess
  \/ OAddAdjacentTargets

SpecAIOps == InitAI /\ [][NextAIOps]_vars

\* the positions of the queue q whose coordinate is not guessed on board b
Fresh(b, q) == {i \in 1..Len(q) : q[i] \notin b.guesses}

\* the least element of a non-empty set of numbers
Least(S) == CHOOSE i \in S : \A j \in S : i <= j

\* C30 as stated: only processGuessResult changes the mode and the target
\* queue; generateGuess and the other operations leave them as they were.
C30_OnlyResultProcessingMutates ==
  [][last'.op # "processGuessResult"
       => cpu'.mode = cpu.mode /\ cpu'.targetQueue = cpu.targetQueue]_vars

\* C30 amended: the AI state is changed by processGuessResult, by
\* generateGuess and by addAdjacentTargets only.  generateGuess never
\* changes the most recent hit; in target mode with a non-empty queue it
\* removes the queue up to and with the first candidate not yet guessed,
\* which it returns, or the whole queue when every candidate is guessed,
\* and then sets the mode to hunt; otherwise it keeps the queue and sets
\* the mode to hunt.  addAdjacentTargets keeps the mode and the most recent
\* hit and appends to the queue the neighbours of its coordinate that are
\* neither guessed nor queued.  setupBoard and receiveGuess change none of
\* the three.
C30_AIStateMutators ==
  [][CASE last'.op = "generateGuess" ->
            LET q == cpu.targetQueue
                F == Fresh(cpu.opponentBoard, q)
            IN /\ cpu'.lastHit = cpu.lastHit
               /\ IF cpu.mode = "target" /\ q # <<>>
                    THEN IF F # {}
                           THEN /\ cpu'.targetQueue = SubSeq(q, Least(F) + 1, Len(q))
                                /\ cpu'.mode = "target"
                                /\ last'.ret = q[Least(F)]
                           ELSE cpu'.targetQueue = <<>> /\ cpu'.mode = "hunt"
                    ELSE cpu'.targetQueue = q /\ cpu'.mode = "hunt"
       [] last'.op = "processGuessResult" -> TRUE
       [] last'.op = "addAdjacentTargets" ->
            LET New(n) == /\ n \notin cpu.opponentBoard.guesses
                          /\ n \notin Range(cpu.targetQueue)
            IN /\ cpu'.mode = cpu.mode
               /\ cpu'.lastHit = cpu.lastHit
               /\ cpu'.targetQueue =
                    cpu.targetQueue \o SelectSeq(Neighbours(last'.arg), New)
       [] OTHER -> /\ cpu'.mode = cpu.mode
                   /\ cpu'.targetQueue = cpu.targetQueue
                   /\ cpu'.lastHit = cpu.lastHit]_vars

\* generateGuess in target mode has dropped a guessed candidate and
\* returned the next one
C30_Witness ==
  /\ last.op = "generateGuess" /\ ~last.hunted
  /\ last.pre.mode = "target"
  /\ Len(last.pre.targetQueue) >= Len(cpu.targetQueue) + 2

\* generateGuess has emptied a queue of guessed candidates and gone hunting
C30_WitnessHunt ==
  /\ last.op = "generateGuess" /\ last.hunted
  /\ last.pre.mode = "target" /\ last.pre.targetQueue # <<>>
  /\ cpu.mode = "hunt" /\ cpu.targetQueue = <<>>

\* the CPU, targeting, has resolved a guess at its own board
C30_WitnessReceive ==
  /\ last.op = "receiveGuess" /\ cpu.mode = "target" /\ cpu.targetQueue # <<>>
  /\ cpu.board.guesses # {}

-----------------------------------------------------------------------------
(* The CPU's turns against a human fleet of two ships of two cells that    *)
(* lie side by side, as placeShipsRandomly(2, 2) can place them            *)

\* the most CPU turns followed
MaxCpuTurns == 5

\* the human's fleet: 00-01 and, below it, 10-11
TurnFleet ==
  << << <<"0","0">>, <<"0","1">> >>, << <<"1","0">>, <<"1","1">> >> >>

\* the coordinates Math.random yields in generateHuntGuess
TurnSamples ==
  { <<"0","0">>, <<"0","1">>, <<"1","1">>, <<"2","0">>, <<"5","5">>, <<"9","9">> }

InitTurns ==
  /\ shipObj = Idle
  /\ human = [HumanPlayer EXCEPT
                !.board = placeShip(placeShip(@, TurnFleet[1]).board, TurnFleet[2]).board]
  /\ cpu = CPUPlayer
  /\ last = [op |-> "new"]
  /\ board = Idle /\ frame = Idle /\ game = Idle /\ hunt = Idle /\ ghost = Idle

\* handleCPUTurn, as long as the game is not over
THandleCPUTurn ==
  \E hg \in generateHuntGuess(cpu, TurnSamples) :
     LET r == handleCPUTurn(human, cpu, hg)
     IN /\ ~checkGameOver(human, [cpu EXCEPT !.board = human.board])
        /\ Cardinality(human.board.guesses) < MaxCpuTurns
        /\ human' = r.human
        /\ cpu' = r.cpu
        /\ last' = [op |-> "handleCPUTurn", cpuGuess |-> r.cpuGuess,
                     result |-> r.result,
                     pre |-> [mode |-> cpu.mode, targetQueue |-> cpu.targetQueue]]
        /\ UNCHANGED <<board, frame, game, hunt, ghost, shipObj>>

NextTurns == THandleCPUTurn

SpecTurns == InitTurns /\ [][NextTurns]_vars

\* the coordinates next to a cell of the ship with the given locations
AroundShip(locations) ==
  UNION {Range(Neighbours(locations[i])) : i \in 1..Len(locations)}

\* C31: when a turn ends with a sunk result and the queue is cleared, every
\* candidate discarded from the queue is an orthogonal neighbour of a cell
\* of the ship that was sunk.
C31_SunkDiscardsOwnNeighbours ==
  last.op = "handleCPUTurn" /\ last.result.hit /\ last.result.sunk
    => \A c \in Range(last.pre.targetQueue) \ {last.cpuGuess} :
          c \in AroundShip(human.board.ships[last.result.ship].locations)

\* the number of human guesses accepted and resolved so far
HumanGuesses == ghost.rounds

\* the number of guesses the CPU has made so far
CpuGuesses == Cardinality(human.board.guesses)

\* C32: turns alternate, the human first: the accepted human guesses are
\* as many as the CPU's guesses or one more; the CPU guesses only when
\* one human guess more has been accepted and is level afterwards, and a
\* human guess is accepted only when the two are level.
C32_TurnsAlternate ==
  /\ [](/\ HumanGuesses - CpuGuesses \in {0, 1}
        /\ HumanGuesses = Cardinality(cpu.board.guesses)
        /\ CpuGuesses = Cardinality(cpu.opponentBoard.guesses))
  /\ [][last'.op = "handleCPUTurn"
          => /\ HumanGuesses = CpuGuesses + 1
             /\ HumanGuesses' = HumanGuesses
             /\ CpuGuesses' = CpuGuesses + 1]_vars
  /\ [][last'.op = "handlePlayerTurn"
          => /\ HumanGuesses = CpuGuesses
             /\ CpuGuesses' = CpuGuesses
             /\ HumanGuesses' = HumanGuesses
                                  + (IF frame'.playerMadeValidMove THEN 1 ELSE 0)]_vars

\* the CPU has answered the second accepted human guess
C32_Witness ==
  /\ last.op = "handleCPUTurn"
  /\ HumanGuesses = 2 /\ CpuGuesses = 2

\* the human's third guess is accepted while the CPU has made two
C32_WitnessHuman ==
  /\ last.op = "handlePlayerTurn" /\ frame.playerMadeValidMove
  /\ HumanGuesses = 3 /\ CpuGuesses = 2

\* C33: a processGuess call with a coordinate that is malformed or outside
\* the board leaves the guessed-set, the hit flags of the ships and the
\* grid with its shape as they were, whether it throws or returns.
C33_InvalidGuessChangesNothing ==
  [][(last'.op = "processGuess" /\ ~InGrid(board, <<last'.arg>>))
       => /\ board'.guesses = board.guesses
          /\ board'.ships = board.ships
          /\ board'.grid = board.grid]_vars

\* C34: whatever generateGuess and processGuessResult calls were made, with
\* whatever coordinates and results, and no other call, the target queue is
\* empty whenever the mode is hunt.
C34_HuntHasEmptyQueue ==
  ~ghost.adjacent => (cpu.mode = "hunt" => cpu.targetQueue = <<>>)

\* a sunk result has brought the AI from target mode with queued candidates
\* back to hunt mode
C34_Witness ==
  /\ ~ghost.adjacent /\ Processed /\ cpu.mode = "hunt"
  /\ last.pre.mode = "target" /\ Len(last.pre.targetQueue) >= 2

\* the AI is targeting with candidates queued after a generateGuess call
C34_WitnessTarget ==
  /\ last.op = "generateGuess" /\ cpu.mode = "target" /\ cpu.targetQueue # <<>>

\* the calls so far were cycles: generateGuess, then processGuessResult of
\* the coordinate it returned
CyclesOnly == ghost.direct = 0

\* C35: in a run of cycles the target queue holds no coordinate twice, only
\* coordinates of the board, and none that is in the guessed-set of the
\* tracking board; so generateGuess in target mode with a non-empty queue
\* returns the head of the queue and removes nothing else.
C35_QueueIsClean ==
  CyclesOnly
    => /\ \A i, j \in 1..Len(cpu.targetQueue) :
             i # j => cpu.targetQueue[i] # cpu.targetQueue[j]
       /\ Range(cpu.targetQueue) \subseteq Cells
       /\ Range(cpu.targetQueue) \cap cpu.opponentBoard.guesses = {}
       /\ (last.op = "generateGuess" /\ last.pre.mode = "target"
             /\ last.pre.targetQueue # <<>>)
            => /\ last.ret = Head(last.pre.targetQueue)
               /\ cpu.targetQueue = Tail(last.pre.targetQueue)

\* after two hits on neighbouring cells the queue holds the candidates of
\* both, the shared ones once
C35_Witness ==
  /\ CyclesOnly /\ Processed /\ last.result.hit /\ ~last.result.sunk
  /\ Cardinality(cpu.opponentBoard.guesses) = 3
  /\ \E i \in 1..Len(Neighbours(last.arg)) :
        Neighbours(last.arg)[i] \in Range(last.pre.targetQueue)
  /\ Len(cpu.targetQueue) >= 3

\* generateGuess has taken the head of a queue of several candidates
C35_WitnessDequeue ==
  /\ CyclesOnly /\ last.op = "generateGuess" /\ ~last.hunted
  /\ Len(last.pre.targetQueue) >= 3

\* C36: in every state of a game the guessed-set of each player's tracking
\* board is the guessed-set of the adversary's own board, and no guess
\* resolved in the game, an accepted human guess or a CPU guess, returns
\* alreadyGuessed = true.
C36_TrackingSetsAgree ==
  /\ human.opponentBoard.guesses = cpu.board.guesses
  /\ cpu.opponentBoard.guesses = human.board.guesses
  /\ last.op = "handleCPUTurn" => ~last.result.alreadyGuessed
  /\ AcceptedTurn => ~last.result.alreadyGuessed

\* the human's second guess has been accepted after the CPU's first
C36_Witness ==
  /\ AcceptedTurn
  /\ Cardinality(cpu.board.guesses) = 2 /\ Cardinality(human.board.guesses) = 1

\* the CPU has made its second guess
C36_WitnessCpu ==
  /\ last.op = "handleCPUTurn"
  /\ Cardinality(cpu.opponentBoard.guesses) = 2

\* the hit flags of the ships of b that are set, as (ship, position) pairs
HitFlags(b) ==
  UNION {{<<k, i>> : i \in {j \in 1..Len(b.ships[k].hits) : b.ships[k].hits[j]}} :
           k \in 1..Len(b.ships)}

\* the cells of b that show X
HitCells(b) == {p \in DOMAIN b.grid : b.grid[p] = "X"}

\* C37: on a board with non-overlapping ships placed before any guess, a
\* processGuess call sets exactly one hit flag when it returns hit = true
\* and none otherwise, and clears none; the number of hit flags that are
\* set always equals the number of X cells of the grid.
C37_NoHitCountedTwice ==
  /\ [](NonOverlapping(board)
          => Cardinality(HitFlags(board)) = Cardinality(HitCells(board)))
  /\ [][(NonOverlapping(board) /\ last'.op = "processGuess")
          => /\ HitFlags(board) \subseteq HitFlags(board')
             /\ Cardinality(HitFlags(board') \ HitFlags(board))
                  = (IF last'.ret.hit THEN 1 ELSE 0)]_vars

\* the second hit on a fleet of two non-overlapping ships, one of them of
\* two cells
C37_Witness ==
  /\ last.op = "processGuess" /\ last.ret.hit
  /\ NonOverlapping(board) /\ Len(board.ships) = 2
  /\ Cardinality(HitFlags(board)) = 2
  /\ \E k \in 1..2 : Len(board.ships[k].locations) = 2

\* a repeated guess at a cell that was hit sets no flag
C37_WitnessRepeat ==
  /\ last.op = "processGuess" /\ last.ret.alreadyGuessed
  /\ NonOverlapping(board) /\ HitFlags(board) # {}
  /\ board.grid[<<parseInt(last.arg[1]), parseInt(last.arg[2])>>] = "X"

\* every cell of every ship of b shows S
FleetOnGrid(b) ==
  \A k \in 1..Len(b.ships) :
     \A i \in 1..Len(b.ships[k].locations) : cellAt(b, b.ships[k].locations[i]) = "S"

\* C38: a failing placeShipsRandomly call rolls nothing back: ships, once
\* placed, stay in the ship list and on the grid during the call and when
\* it throws, and the count in the placement-exhausted error is the number
\* of ships this call added, the ships placed by earlier calls not counted.
C38_FailureKeepsPlacedShips ==
  /\ []((PlaceDone /\ last.threw = Exhausted)
          => /\ last.placedShips = Len(board.ships) - last.before
             /\ last.placedShips < last.numShips
             /\ FleetOnGrid(board))
  /\ [][/\ Len(board.ships) <= Len(board'.ships)
        /\ SubSeq(board'.ships, 1, Len(board.ships)) = board.ships
        /\ (last'.op = "placeShipsRandomly" /\ last'.threw = Exhausted)
             => board' = board]_vars

\* a call for two ships has failed with the first of them placed
C38_Witness ==
  /\ PlaceDone /\ last.threw = Exhausted
  /\ last.numShips = 2 /\ last.placedShips = 1 /\ last.before = 0
  /\ Len(board.ships) = 1

\* a call has failed without placing a ship on a board that held one
C38_WitnessEarlier ==
  /\ PlaceDone /\ last.threw = Exhausted
  /\ last.before = 1 /\ last.placedShips = 0 /\ Len(board.ships) = 1

-----------------------------------------------------------------------------
(* Whole games after a successful setup with one ship of two cells on each *)
(* side, followed to their end.  The human types the first coordinate, in  *)
(* row-major order, that the tracking board does not show as guessed, or   *)
(* something else.                                                         *)

\* where setupPlayers has placed the ship of the human and of the CPU
LongFleets ==
  { << <<"0","0">>, <<"0","1">> >>,
    << <<"8","9">>, <<"9","9">> >>,
    << <<"9","8">>, <<"9","9">> >> }

\* what the human types instead of the next unguessed coordinate
LongOthers == { <<>>, <<"9","9">>, <<"9","A">> }

InitLong ==
  /\ shipObj = Idle
  /\ game = Game([boardSize |-> Undefined, numShips |-> 1, shipLength |-> 2])
  /\ human \in {[HumanPlayer EXCEPT !.board = placeShip(@, l).board] : l \in LongFleets}
  /\ cpu \in {[CPUPlayer EXCEPT !.board = placeShip(@, l).board] : l \in LongFleets}
  /\ frame = [pc |-> "loopTop", playerMadeValidMove |-> FALSE]
  /\ last = [op |-> "startGame", threw |-> None]
  /\ ghost = [rounds |-> 0, exit |-> "none"]
  /\ board = Idle /\ hunt = Idle

\* handlePlayerTurn with the line input
LTurn(input) ==
  /\ frame.pc = "prompt"
  /\ ~game.rlClosed
  /\ \E r \in {handlePlayerTurn(human, cpu, input)} :
       /\ human' = r.human
       /\ cpu' = r.cpu
       /\ frame' = [pc |-> "resolved", playerMadeValidMove |-> r.ret]
       /\ last' = IF r.ret
                     THEN [op |-> "handlePlayerTurn", input |-> input,
                           validation |-> r.validation, result |-> r.result]
                     ELSE [op |-> "handlePlayerTurn", input |-> input,
                           validation |-> r.validation]
       /\ ghost' = IF r.ret THEN [ghost EXCEPT !.rounds = @ + 1] ELSE ghost
       /\ UNCHANGED <<board, game, hunt, shipObj>>

\* the human types the first unguessed coordinate
LTypeNext ==
  \E input \in {scanRows(human.opponentBoard, 0)} \ {Null} : LTurn(input)

\* the human types something else
LTypeOther == \E input \in LongOthers : LTurn(input)

NextLong ==
  \/ GLoopTop \/ LTypeNext \/ LTypeOther \/ GResume \/ GHandleCPUTurn
  \/ GEndGame \/ GFinally \/ GForceEnd

SpecLong == InitLong /\ [][NextLong]_vars

\* the step of the loop in which handleCPUTurn, a synchronous call, returns
CpuTurnTaken ==
  /\ frame.pc = "cpuTurn"
  /\ frame' = [frame EXCEPT !.pc = "loopTop"]

\* the step in which handlePlayerTurn returns true: validateGuess has
\* accepted the line the human entered
GuessAccepted ==
  /\ frame.pc = "prompt"
  /\ frame' = [pc |-> "resolved", playerMadeValidMove |-> TRUE]

\* the loop runs on, and the human keeps entering a guess that is accepted
SpecLongFair ==
  /\ SpecLong
  /\ WF_vars(GLoopTop) /\ WF_vars(GResume) /\ WF_vars(GEndGame)
  /\ WF_vars(GFinally)
  /\ WF_frame(CpuTurnTaken)
  /\ SF_frame(GuessAccepted)

\* C39: a game that was set up with ships of at least one cell ends when
\* the human keeps entering accepted guesses: the loop ends, endGame runs
\* and startGame closes the interface, after at most 100 accepted human
\* guesses; whenever the human is prompted some
\* coordinate of the board is not guessed on the tracking board, such a
\* coordinate is accepted when it is entered, and every guess of the CPU is
\* a coordinate that was not guessed before.
C39_GameTerminates ==
  /\ <>(frame.pc = "closed" /\ ghost.exit # "none")
  /\ [](frame.pc \in {"ended", "closed"} => ghost.exit # "none")
  /\ [](ghost.rounds <= 100)
  /\ [](frame.pc = "prompt" => Cells \ human.opponentBoard.guesses # {})
  /\ [][/\ last'.op = "handlePlayerTurn"
         /\ last'.input \in Cells \ human.opponentBoard.guesses
         => frame'.playerMadeValidMove]_vars
  /\ [][last'.op = "handleCPUTurn"
          => /\ last'.cpuGuess \in Cells
             /\ last'.cpuGuess \notin cpu.opponentBoard.guesses
             /\ last'.cpuGuess \notin human.board.guesses]_vars

\* the game has ended with the human's hundredth accepted guess
C39_Witness ==
  /\ frame.pc = "closed" /\ last.op = "endGame"
  /\ ghost.rounds = 100 /\ Cardinality(human.board.guesses) = 99

\* the CPU has made its ninety-ninth guess
C39_WitnessCpu ==
  /\ last.op = "handleCPUTurn" /\ Cardinality(cpu.opponentBoard.guesses) = 99

-----------------------------------------------------------------------------
(* The winner endGame reports *)

\* both sides have ships, and every ship has a cell
FleetsWithCells ==
  \A p \in {human, cpu} :
     /\ Len(p.board.ships) >= 1
     /\ \A k \in 1..Len(p.board.ships) : Len(p.board.ships[k].locations) >= 1

\* every cell of every ship of the board b has been guessed
AllCellsGuessed(b) ==
  \A k \in 1..Len(b.ships) : Range(b.ships[k].locations) \subseteq b.guesses

\* C40: when the loop of a game with ships of at least one cell on both
\* sides has ended with a break after checkGameOver, exactly one of the two
\* own boards is all sunk, every cell of its ships guessed; endGame reports
\* the human as the winner exactly when that board is the CPU's, and the
\* CPU as the winner exactly when it is the human's.
C40_WinnerIsTheSurvivor ==
  /\ FleetsWithCells
  /\ ghost.exit = "check"
  => /\ AllCellsGuessed(cpu.board) # AllCellsGuessed(human.board)
     /\ isDefeated(cpu) <=> AllCellsGuessed(cpu.board)
     /\ isDefeated(human) <=> AllCellsGuessed(human.board)
     /\ last.op = "endGame"
          => /\ last.playerWon <=> AllCellsGuessed(cpu.board)
             /\ ~last.playerWon <=> AllCellsGuessed(human.board)

\* endGame has reported the human as the winner: both cells of the CPU's
\* ship are guessed, and the human's ship is afloat
C40_Witness ==
  /\ last.op = "endGame" /\ last.playerWon /\ FleetsWithCells
  /\ ghost.exit = "check"
  /\ AllCellsGuessed(cpu.board) /\ ~AllCellsGuessed(human.board)
  /\ Len(cpu.board.ships[1].locations) = 2

\* endGame has reported the CPU as the winner: the human's ships are sunk
\* and the CPU has a ship afloat
C40_WitnessCpuWon ==
  /\ last.op = "endGame" /\ ~last.playerWon /\ FleetsWithCells
  /\ ghost.exit = "check"
  /\ AllCellsGuessed(human.board) /\ ~AllCellsGuessed(cpu.board)

====
